---- MODULE Spec2Model ----
(***************************************************************************)
(* A model of the backend layer of tenpy.linalg:                           *)
(*   - backends/backend_factory.py : get_backend and its instance cache    *)
(*   - backends/numpy.py           : NumpyBlockBackend (SVD driver         *)
(*                                   selection, matrixify, tdot, trace)    *)
(* Python's None is the string "None"; axes are 0-based as in the source.  *)
(***************************************************************************)
EXTENDS Integers, Sequences, FiniteSets, TLC

VARIABLES
    instantiated_backends,  \* backend_factory._instantiated_backends: key -> instance
    num_constructed,        \* how many times a backend class was instantiated
    returned,               \* history: what each successful get_backend asked for and got
    call,                   \* the last get_backend call: arguments and outcome
    svd_call,               \* the last matrix_svd call: arguments and outcome
    svd_drivers,            \* the LAPACK drivers run so far, over all matrix_svd calls
    blk                     \* the block operation under way: its inputs and results

vars == <<instantiated_backends, num_constructed, returned, call, svd_call, svd_drivers,
          blk>>

None == "None"

(***************************************************************************)
(* backend_factory.py                                                      *)
(***************************************************************************)

\* The most backend instances the model lets the factory construct.
MaxBackends == 2

\* Symmetries a caller can pass: the trivial one, an abelian and a non-abelian group.
Symmetries == {"no_symmetry", "u1", "su2"}

no_symmetry == "no_symmetry"

is_abelian(symmetry) == symmetry \in {"no_symmetry", "u1"}

\* The names the first assertion of get_backend accepts (line 65).
BlockBackendNames == {"numpy", "torch", "tensorflow", "jax", "cpu", "gpu", "tpu"}

\* The kinds the second assertion of get_backend accepts (line 75).
SymmetryBackendNames == {"no_symmetry", "abelian", "nonabelian"}

NoKwargs == <<>>
CudaKwargs == <<<<"device", "cuda">>>>

\* A None entry of _backend_lookup; the other entries are pairs (cls, kwargs).
NotImplemented == <<>>

\* What a failed call leaves in place of a key and of a backend.
NoKey == <<>>
NoBackend == [id |-> 0, cls |-> None, kwargs |-> NoKwargs]

\* _backend_lookup with the reserved names served by the numpy family instead of None.
backend_lookup_fallback == [
    no_symmetry |-> [
        numpy      |-> <<"NoSymmetryNumpyBackend", NoKwargs>>,
        torch      |-> <<"NoSymmetryTorchBackend", NoKwargs>>,
        tensorflow |-> <<"NoSymmetryNumpyBackend", NoKwargs>>,
        jax        |-> <<"NoSymmetryNumpyBackend", NoKwargs>>,
        cpu        |-> <<"NoSymmetryNumpyBackend", NoKwargs>>,
        gpu        |-> <<"NoSymmetryTorchBackend", CudaKwargs>>,
        tpu        |-> <<"NoSymmetryNumpyBackend", NoKwargs>>],
    abelian |-> [
        numpy      |-> <<"AbelianNumpyBackend", NoKwargs>>,
        torch      |-> <<"AbelianTorchBackend", NoKwargs>>,
        tensorflow |-> <<"AbelianNumpyBackend", NoKwargs>>,
        jax        |-> <<"AbelianNumpyBackend", NoKwargs>>,
        cpu        |-> <<"AbelianNumpyBackend", NoKwargs>>,
        gpu        |-> <<"AbelianTorchBackend", CudaKwargs>>,
        tpu        |-> <<"AbelianNumpyBackend", NoKwargs>>],
    non_abelian |-> [
        numpy      |-> NotImplemented,
        torch      |-> NotImplemented,
        tensorflow |-> NotImplemented,
        jax        |-> NotImplemented,
        cpu        |-> NotImplemented,
        gpu        |-> NotImplemented,
        tpu        |-> NotImplemented]]

\* _backend_lookup: its outer keys are no_symmetry, abelian and non_abelian.
backend_lookup == [
    no_symmetry |-> [
        numpy      |-> <<"NoSymmetryNumpyBackend", NoKwargs>>,
        torch      |-> <<"NoSymmetryTorchBackend", NoKwargs>>,
        tensorflow |-> NotImplemented,
        jax        |-> NotImplemented,
        cpu        |-> <<"NoSymmetryNumpyBackend", NoKwargs>>,
        gpu        |-> <<"NoSymmetryTorchBackend", CudaKwargs>>,
        tpu        |-> NotImplemented],
    abelian |-> [
        numpy      |-> <<"AbelianNumpyBackend", NoKwargs>>,
        torch      |-> <<"AbelianTorchBackend", NoKwargs>>,
        tensorflow |-> NotImplemented,
        jax        |-> NotImplemented,
        cpu        |-> <<"AbelianNumpyBackend", NoKwargs>>,
        gpu        |-> <<"AbelianTorchBackend", CudaKwargs>>,
        tpu        |-> NotImplemented],
    non_abelian |-> [
        numpy      |-> NotImplemented,
        torch      |-> NotImplemented,
        tensorflow |-> NotImplemented,
        jax        |-> NotImplemented,
        cpu        |-> NotImplemented,
        gpu        |-> NotImplemented,
        tpu        |-> NotImplemented]]

\* The selection with the abelian test made before the test for the trivial symmetry.
select_symmetry_backend_abelian_first(symmetry, symmetry_backend) ==
    IF symmetry_backend = None
    THEN IF is_abelian(symmetry) THEN "abelian"
         ELSE IF symmetry = no_symmetry THEN "no_symmetry"
         ELSE "nonabelian"
    ELSE symmetry_backend

\* Lines 66-74: the symmetry backend kind a call works with.
select_symmetry_backend(symmetry, symmetry_backend) ==
    IF symmetry_backend = None
    THEN IF symmetry = no_symmetry THEN "no_symmetry"
         ELSE IF is_abelian(symmetry) THEN "abelian"
         ELSE "nonabelian"
    ELSE symmetry_backend

\* The cache key without the block backend name.
backend_key_without_name(symmetry_backend, block_backend, kwargs) ==
    <<symmetry_backend, kwargs>>

\* Line 82: the cache key of a resolved request.
backend_key(symmetry_backend, block_backend, kwargs) ==
    <<symmetry_backend, block_backend, kwargs>>

\* A cache with room for the newest instance only.
cache_setitem_evicting(cache, key, backend) == [k \in {key} |-> backend]

\* Line 85: _instantiated_backends[key] = backend
cache_setitem(cache, key, backend) ==
    [k \in DOMAIN cache \cup {key} |-> IF k = key THEN backend ELSE cache[k]]

Raised(exc, kind, cache, n) ==
    [outcome |-> exc, kind |-> kind, key |-> NoKey, backend |-> NoBackend,
     constructed |-> FALSE, cache |-> cache, n |-> n]

\* get_backend as a function of the cache, the construction counter and the arguments:
\* the outcome, the backend returned, and the cache and counter afterwards.
get_backend(cache, n, symmetry, block_backend, symmetry_backend) ==
    IF block_backend \notin BlockBackendNames
    THEN Raised("AssertionError", None, cache, n)
    ELSE LET kind == select_symmetry_backend(symmetry, symmetry_backend) IN
         IF kind \notin SymmetryBackendNames
         THEN Raised("AssertionError", kind, cache, n)
         ELSE IF kind \notin DOMAIN backend_lookup
         THEN Raised("KeyError", kind, cache, n)
         ELSE LET res == backend_lookup[kind][block_backend] IN
              IF res = NotImplemented
              THEN Raised("NotImplementedError", kind, cache, n)
              ELSE LET key == backend_key(kind, block_backend, res[2]) IN
                   IF key \notin DOMAIN cache
                   THEN LET backend == [id |-> n + 1, cls |-> res[1], kwargs |-> res[2]] IN
                        [outcome |-> "ok", kind |-> kind, key |-> key, backend |-> backend,
                         constructed |-> TRUE,
                         cache |-> cache_setitem(cache, key, backend),
                         n |-> n + 1]
                   ELSE [outcome |-> "ok", kind |-> kind, key |-> key, backend |-> cache[key],
                         constructed |-> FALSE, cache |-> cache, n |-> n]

\* What callers pass: every accepted value and one value outside each accepted set.
BlockBackendArgs == BlockBackendNames \cup {"cuda"}
SymmetryBackendArgs == SymmetryBackendNames \cup {None, "non_abelian"}

NoCall == [symmetry |-> None, block_backend |-> None, symmetry_backend |-> None,
           outcome |-> "none", kind |-> None, key |-> NoKey, backend |-> NoBackend,
           constructed |-> FALSE]

FactoryInit ==
    /\ instantiated_backends = <<>>
    /\ num_constructed = 0
    /\ returned = {}
    /\ call = NoCall

FactoryIdle == UNCHANGED <<instantiated_backends, num_constructed, returned, call>>

(***************************************************************************)
(* backends/numpy.py: NumpyBlockBackend.matrix_svd                         *)
(***************************************************************************)

\* The most driver runs the model records.
MaxDriverRuns == 3

\* The matrices handed to matrix_svd, told apart by a number only.
NumMatrices == 3

\* NumpyBlockBackend.svd_algorithms
svd_algorithms == {"gesdd", "gesvd", "robust", "robust_silent"}

\* What callers pass as algorithm: None, the listed names and two names not listed.
SvdAlgorithmArgs == svd_algorithms \cup {None, "gesvdx", "full"}

NoResult == [driver |-> None, of |-> 0]

SvdReturn(drivers, driver, a) ==
    [outcome |-> "ok", raised_at |-> None, message |-> None,
     drivers |-> drivers, result |-> [driver |-> driver, of |-> a]]

SvdRaise(exc, where, message, drivers) ==
    [outcome |-> exc, raised_at |-> where, message |-> message,
     drivers |-> drivers, result |-> NoResult]

\* scipy.linalg.svd(a, full_matrices=False): LAPACK's gesdd, which either converges or
\* raises numpy.linalg.LinAlgError.
scipy_linalg_svd(a, converges) ==
    IF converges THEN SvdReturn(<<"gesdd">>, "gesdd", a)
    ELSE SvdRaise("LinAlgError", "scipy.linalg.svd", "SVD did not converge", <<"gesdd">>)

\* _svd_gesvd(a), lines 200-201: its body is a raise.
svd_gesvd(a, ran) ==
    SvdRaise("NotImplementedError", "_svd_gesvd", None, ran)

\* None taken to mean the robust mode.
default_algorithm_robust(algorithm) ==
    IF algorithm = None THEN "robust_silent" ELSE algorithm

\* Lines 133-134.
default_algorithm(algorithm) ==
    IF algorithm = None THEN "gesdd" ELSE algorithm

\* An unknown name falling through to the default driver.
unsupported_algorithm_runs_default(a, algorithm, converges) ==
    scipy_linalg_svd(a, converges)

\* Lines 151-152: the final else branch.
unsupported_algorithm(a, algorithm, converges) ==
    SvdRaise("ValueError", "matrix_svd", <<"SVD algorithm not supported: ", algorithm>>, <<>>)

\* matrix_svd(a, algorithm), lines 132-152. converges: whether gesdd converges on a.
matrix_svd(a, algorithm_arg, converges) ==
    LET algorithm == default_algorithm(algorithm_arg) IN
    IF algorithm = "gesdd"
    THEN scipy_linalg_svd(a, converges)
    ELSE IF algorithm \in {"robust", "robust_silent"}
    THEN LET silent == (algorithm = "robust_silent")
             try == scipy_linalg_svd(a, converges) IN
         IF try.outcome = "ok" THEN try
         ELSE IF ~silent
              THEN SvdRaise("NotImplementedError", "matrix_svd", None, try.drivers)
              ELSE svd_gesvd(a, try.drivers)
    ELSE IF algorithm = "gesvd"
    THEN svd_gesvd(a, <<>>)
    ELSE unsupported_algorithm(a, algorithm, converges)

NoSvdCall == [a |-> 0, algorithm |-> None, converges |-> TRUE, outcome |-> "none",
              raised_at |-> None, message |-> None, drivers |-> <<>>, result |-> NoResult]

SvdInit ==
    /\ svd_call = NoSvdCall
    /\ svd_drivers = <<>>

SvdIdle == UNCHANGED <<svd_call, svd_drivers>>

(***************************************************************************)
(* backends/numpy.py: blocks (numpy arrays) and the numpy functions used   *)
(* A block is [shape, data]: data lists the entries in row-major (C)       *)
(* order, data[k + 1] being the entry at flat offset k.                    *)
(***************************************************************************)

\* The largest extent of one axis.
MaxDim == 2

\* The most entries a block holds.
MaxElems == 16

RECURSIVE Prod(_)
Prod(s) == IF s = <<>> THEN 1 ELSE s[1] * Prod(Tail(s))

RECURSIVE Sum(_)
Sum(s) == IF s = <<>> THEN 0 ELSE s[1] + Sum(Tail(s))

Front(s) == SubSeq(s, 1, Len(s) - 1)

\* Flat offset of the 0-based multi-index idx in an array of the given shape.
RECURSIVE Ravel(_, _)
Ravel(idx, shape) ==
    IF idx = <<>> THEN 0
    ELSE Ravel(Front(idx), Front(shape)) * shape[Len(shape)] + idx[Len(idx)]

\* The multi-index of flat offset k.
RECURSIVE Unravel(_, _)
Unravel(k, shape) ==
    IF shape = <<>> THEN <<>>
    ELSE Append(Unravel(k \div shape[Len(shape)], Front(shape)), k % shape[Len(shape)])

Item(a, idx) == a.data[Ravel(idx, a.shape) + 1]

\* The array of the given shape whose entry at multi-index j is F(j).
FromFn(shape, F(_)) ==
    [shape |-> shape, data |-> [k \in 1..Prod(shape) |-> F(Unravel(k - 1, shape))]]

\* All shapes with n axes.
RECURSIVE ShapesOfNdim(_)
ShapesOfNdim(n) ==
    IF n = 0 THEN {<<>>}
    ELSE {Append(s, d) : s \in ShapesOfNdim(n - 1), d \in 1..MaxDim}

Shapes(maxNdim) ==
    {s \in UNION {ShapesOfNdim(n) : n \in 0..maxNdim} : Prod(s) <= MaxElems}

\* All orderings of the elements of a finite set, as sequences.
RECURSIVE Orderings(_)
Orderings(S) ==
    IF S = {} THEN {<<>>}
    ELSE UNION {{<<x>> \o t : t \in Orderings(S \ {x})} : x \in S}

Range(s) == {s[i] : i \in 1..Len(s)}

\* np.random.random(shape) stands for any array; two families of arrays span them
\* for the (multi)linear operations here: the array whose entry at flat offset k is
\* 2^k (all sums of distinct entries differ), and the unit arrays.
GenericBlock(shape) == [shape |-> shape, data |-> [k \in 1..Prod(shape) |-> 2 ^ (k - 1)]]

UnitBlock(shape, p) == [shape |-> shape, data |-> [k \in 1..Prod(shape) |-> IF k = p THEN 1 ELSE 0]]

UnitBlocks(shape) == {UnitBlock(shape, p) : p \in 1..Prod(shape)}

\* np.shape(a)[lo:hi] for a tuple: the entries lo .. hi - 1 (0-based).
Slice(t, lo, hi) == SubSeq(t, lo + 1, hi)

\* np.transpose(a, axes): axis i of the result is axis axes[i] of a.
np_transpose(a, axes) ==
    LET n == Len(axes)
        shape == [i \in 1..n |-> a.shape[axes[i] + 1]]
    IN FromFn(shape, LAMBDA j :
           Item(a, [ax \in 1..n |-> j[CHOOSE i \in 1..n : axes[i] = ax - 1]]))

\* np.prod of a tuple of ints: an integer, but the float 1.0 for the empty tuple.
np_prod(t) == [value |-> Prod(t), dtype |-> IF t = <<>> THEN "float64" ELSE "int64"]

\* np.reshape(a, newshape) with newshape a tuple of np.prod results: a float extent is a
\* TypeError, a different number of entries a ValueError; the row-major order is kept.
np_reshape(a, newshape) ==
    IF \E i \in 1..Len(newshape) : newshape[i].dtype # "int64"
    THEN [raised |-> "TypeError", shape |-> <<>>, data |-> <<>>]
    ELSE LET shape == [i \in 1..Len(newshape) |-> newshape[i].value] IN
         IF Prod(shape) # Len(a.data)
         THEN [raised |-> "ValueError", shape |-> <<>>, data |-> <<>>]
         ELSE [raised |-> None, shape |-> shape, data |-> a.data]

Ints(shape) == [i \in 1..Len(shape) |-> [value |-> shape[i], dtype |-> "int64"]]

Unraised(r) == [shape |-> r.shape, data |-> r.data]

\* tenpy.linalg.misc.inverse_permutation: inv[perm[i]] = i.
inverse_permutation(perm) ==
    [j \in 1..Len(perm) |-> (CHOOSE i \in 1..Len(perm) : perm[i] = j - 1) - 1]

(***************************************************************************)
(* NumpyBlockBackend.block_matrixify / block_dematrixify                   *)
(***************************************************************************)

\* The most axes of a block handed to block_matrixify.
MaxNdim == 3

\* block_matrixify with the two extents of the matrix exchanged.
block_matrixify_swapped_shape(a, idcs1, idcs2) ==
    LET permutation == idcs1 \o idcs2
        at == np_transpose(a, permutation)
        a_shape == at.shape
        matrix_shape == <<np_prod(Slice(a_shape, Len(idcs1), Len(a_shape))),
                          np_prod(Slice(a_shape, 0, Len(idcs1)))>>
        matrix == np_reshape(at, matrix_shape)
    IN [raised |-> matrix.raised, matrix |-> Unraised(matrix),
        aux |-> <<permutation, a_shape>>]

\* Lines 114-121.
block_matrixify(a, idcs1, idcs2) ==
    LET permutation == idcs1 \o idcs2
        at == np_transpose(a, permutation)
        a_shape == at.shape
        matrix_shape == <<np_prod(Slice(a_shape, 0, Len(idcs1))),
                          np_prod(Slice(a_shape, Len(idcs1), Len(a_shape)))>>
        matrix == np_reshape(at, matrix_shape)
    IN [raised |-> matrix.raised, matrix |-> Unraised(matrix),
        aux |-> <<permutation, a_shape>>]

\* block_dematrixify transposing by the permutation itself, not by its inverse.
block_dematrixify_forward(matrix, aux) ==
    LET permutation == aux[1]
        a_shape == aux[2]
        res == np_reshape(matrix, Ints(a_shape))
    IN np_transpose(Unraised(res), permutation)

\* Lines 123-126.
block_dematrixify(matrix, aux) ==
    LET permutation == aux[1]
        a_shape == aux[2]
        res == np_reshape(matrix, Ints(a_shape))
    IN np_transpose(Unraised(res), inverse_permutation(permutation))

NoBlock == [shape |-> <<>>, data |-> <<0>>]

BlkIdle == [op |-> "idle"]

BlockIdleInit == blk = BlkIdle

BlockIdle == UNCHANGED blk

\* The blocks handed to block_matrixify.
MatrixifyBlocks ==
    UNION {{GenericBlock(shape)} \cup UnitBlocks(shape) : shape \in Shapes(MaxNdim)}

Axes(a) == 0..(Len(a.shape) - 1)

\* The splits of the axes of a into two ordered lists.
Splits(a) ==
    {<<SubSeq(o, 1, k), SubSeq(o, k + 1, Len(o))>> :
        o \in Orderings(Axes(a)), k \in 0..Len(a.shape)}

MatrixifyInit ==
    \E a \in MatrixifyBlocks :
        blk = [op |-> "input", a |-> a, idcs1 |-> <<>>, idcs2 |-> <<>>, raised |-> None,
               matrix |-> NoBlock, aux |-> <<>>, restored |-> NoBlock]

\* matrix, aux = block_matrixify(a, idcs1, idcs2)
BlockMatrixify ==
    /\ blk.op = "input"
    /\ \E split \in Splits(blk.a) :
          LET r == block_matrixify(blk.a, split[1], split[2]) IN
          blk' = [blk EXCEPT !.op = "matrixify", !.idcs1 = split[1], !.idcs2 = split[2],
                             !.raised = r.raised, !.matrix = r.matrix, !.aux = r.aux]
    /\ FactoryIdle /\ SvdIdle

\* block_dematrixify(matrix, aux) on what block_matrixify returned.
BlockDematrixify ==
    /\ blk.op = "matrixify"
    /\ blk.raised = None
    /\ blk' = [blk EXCEPT !.op = "dematrixify",
                          !.restored = block_dematrixify(blk.matrix, blk.aux)]
    /\ FactoryIdle /\ SvdIdle

(***************************************************************************)
(* NumpyBlockBackend.block_tdot / block_outer and tensors.tdot             *)
(***************************************************************************)

\* The most legs of an operand of tdot.
MaxTdotLegs == 2

\* The sum of F(k) for k = 0 .. n - 1.
SumTo(n, F(_)) == Sum([k \in 1..n |-> F(k - 1)])

\* The elements of 0 .. n - 1 that are not in the list, ascending.
RECURSIVE NotIn(_, _, _)
NotIn(k, n, list) ==
    IF k >= n THEN <<>>
    ELSE (IF k \in Range(list) THEN <<>> ELSE <<k>>) \o NotIn(k + 1, n, list)

\* np.dot of two matrices.
np_dot(at, bt) ==
    FromFn(<<at.shape[1], bt.shape[2]>>, LAMBDA j :
        SumTo(at.shape[2], LAMBDA k : Item(at, <<j[1], k>>) * Item(bt, <<k, j[2]>>)))

\* np.tensordot(a, b, (axes_a, axes_b)) as numpy computes it: both operands are transposed
\* and reshaped to matrices, multiplied, and the product is reshaped.
np_tensordot(a, b, axes_a, axes_b) ==
    IF \/ \E k \in 1..Len(axes_a) : axes_a[k] >= Len(a.shape)
       \/ \E k \in 1..Len(axes_b) : axes_b[k] >= Len(b.shape)
    THEN [raised |-> "IndexError", shape |-> <<>>, data |-> <<>>]
    ELSE IF \/ Len(axes_a) # Len(axes_b)
       \/ \E k \in 1..Len(axes_a) : a.shape[axes_a[k] + 1] # b.shape[axes_b[k] + 1]
    THEN [raised |-> "ValueError", shape |-> <<>>, data |-> <<>>]
    ELSE LET notin_a == NotIn(0, Len(a.shape), axes_a)
             newaxes_a == notin_a \o axes_a
             N2 == Prod([k \in 1..Len(axes_a) |-> a.shape[axes_a[k] + 1]])
             olda == [k \in 1..Len(notin_a) |-> a.shape[notin_a[k] + 1]]
             newshape_a == <<Prod(olda), N2>>
             notin_b == NotIn(0, Len(b.shape), axes_b)
             newaxes_b == axes_b \o notin_b
             oldb == [k \in 1..Len(notin_b) |-> b.shape[notin_b[k] + 1]]
             newshape_b == <<N2, Prod(oldb)>>
             at == Unraised(np_reshape(np_transpose(a, newaxes_a), Ints(newshape_a)))
             bt == Unraised(np_reshape(np_transpose(b, newaxes_b), Ints(newshape_b)))
             res == np_dot(at, bt)
         IN np_reshape(res, Ints(olda \o oldb))

\* block_tdot with the two axis lists exchanged.
block_tdot_swapped(a, b, idcs_a, idcs_b) == np_tensordot(a, b, idcs_b, idcs_a)

\* Lines 45-46.
block_tdot(a, b, idcs_a, idcs_b) == np_tensordot(a, b, idcs_a, idcs_b)

\* Lines 73-74.
block_outer(a, b) == np_tensordot(a, b, <<>>, <<>>)

\* VectorSpace.can_contract_with for legs without symmetry: the same dimension and the
\* opposite duality.
can_contract_with(leg, other) == leg.dim = other.dim /\ leg.is_dual # other.is_dual

\* A leg is named by an integer or by a string; the value carries its type. ByNone is
\* None passed where a leg is named.
ByIndex(i) == [int |-> i]
ByLabel(l) == [str |-> l]
ByNone == [none |-> TRUE]

Resolved(i) == [raised |-> None, idx |-> i]
LookupRaised(exc) == [raised |-> exc, idx |-> 0]

\* get_leg_idx resolving a string only, an integer being taken as it is.
get_leg_idx_unchecked(t, which_leg) ==
    IF "str" \in DOMAIN which_leg
    THEN IF \E i \in 1..Len(t.labels) : t.labels[i] = which_leg.str
         THEN Resolved((CHOOSE i \in 1..Len(t.labels) : t.labels[i] = which_leg.str) - 1)
         ELSE LookupRaised("ValueError")
    ELSE IF "int" \in DOMAIN which_leg
    THEN Resolved(which_leg.int)
    ELSE LookupRaised("TypeError")

\* Tensor.get_leg_idx: a string is the position of the leg with that label, an integer
\* is an index, counted from the end when negative; a string that is no label and an
\* index out of range raise ValueError, anything else (None) raises TypeError. The label
\* of an unlabelled leg is None, which is no string: no string key equals it.
get_leg_idx(t, which_leg) ==
    LET n == Len(t.labels) IN
    IF "str" \in DOMAIN which_leg
    THEN IF \E i \in 1..n : t.labels[i] = which_leg.str
         THEN Resolved((CHOOSE i \in 1..n : t.labels[i] = which_leg.str) - 1)
         ELSE LookupRaised("ValueError")
    ELSE IF "int" \in DOMAIN which_leg
    THEN LET i == IF which_leg.int < 0 THEN which_leg.int + n ELSE which_leg.int IN
         IF 0 <= i /\ i < n THEN Resolved(i) ELSE LookupRaised("ValueError")
    ELSE LookupRaised("TypeError")

\* Tensor.get_leg_idcs on legs that resolve.
get_leg_idcs(t, which_legs) ==
    [k \in 1..Len(which_legs) |-> get_leg_idx(t, which_legs[k]).idx]

\* tensors.tdot for tensors of a no-symmetry backend: the legs are resolved and checked,
\* and the blocks are contracted by block_tdot, or by block_outer when no leg is named.
tdot(t1, t2, legs1, legs2) ==
    LET leg_idcs1 == get_leg_idcs(t1, legs1)
        leg_idcs2 == get_leg_idcs(t2, legs2)
    IN IF \/ \E k \in 1..Len(legs1) : get_leg_idx(t1, legs1[k]).raised # None
          \/ \E k \in 1..Len(legs2) : get_leg_idx(t2, legs2[k]).raised # None
       THEN [raised |-> "ValueError", shape |-> <<>>, data |-> <<>>]
       ELSE IF \/ Len(leg_idcs1) # Len(leg_idcs2)
          \/ \E k \in 1..Len(leg_idcs1) :
                ~can_contract_with(t1.legs[leg_idcs1[k] + 1], t2.legs[leg_idcs2[k] + 1])
       THEN [raised |-> "ValueError", shape |-> <<>>, data |-> <<>>]
       ELSE IF leg_idcs1 = <<>>
       THEN block_outer(t1.data, t2.data)
       ELSE block_tdot(t1.data, t2.data, leg_idcs1, leg_idcs2)

LabelsOfFirst == <<"a", "b", "c", "d">>
LabelsOfSecond == <<"z*", "y*", "x*", "w*">>

Tensor(data, is_dual, labels) ==
    [data |-> data,
     legs |-> [i \in 1..Len(data.shape) |-> [dim |-> data.shape[i], is_dual |-> is_dual]],
     labels |-> SubSeq(labels, 1, Len(data.shape))]

\* The array whose entry at flat offset k is 2^(stride * k).
StridedBlock(shape, stride) ==
    [shape |-> shape, data |-> [k \in 1..Prod(shape) |-> 2 ^ (stride * (k - 1))]]

\* The operands of tdot. An entry of the result is a sum of products of an entry of each
\* operand; with the entries 2^i in the first and 2^(N * j) in the second, N the number
\* of entries of the first, the sum tells which pairs (i, j) it is made of. The legs
\* of one tensor are all dual or all not.
TdotInit ==
    \E s1 \in Shapes(MaxTdotLegs), s2 \in Shapes(MaxTdotLegs), d1 \in BOOLEAN, d2 \in BOOLEAN :
        /\ Prod(s1) * Prod(s2) <= MaxElems
        /\ blk = [op |-> "input", t1 |-> Tensor(GenericBlock(s1), d1, LabelsOfFirst),
                  t2 |-> Tensor(StridedBlock(s2, Prod(s1)), d2, LabelsOfSecond),
                  idcs1 |-> <<>>, idcs2 |-> <<>>, legs1 |-> <<>>, legs2 |-> <<>>,
                  result |-> [raised |-> None, shape |-> <<>>, data |-> <<>>]]

\* The lists of distinct axes of a block.
AxisLists(a) == UNION {Orderings(S) : S \in SUBSET Axes(a)}

\* res = tdot(t1, t2, legs1, legs2) over mutually contractible legs, named by index or
\* by label.
Tdot ==
    /\ blk.op = "input"
    /\ \E idcs1 \in AxisLists(blk.t1.data), idcs2 \in AxisLists(blk.t2.data),
          by_label \in BOOLEAN :
          /\ Len(idcs1) = Len(idcs2)
          /\ \A k \in 1..Len(idcs1) :
                can_contract_with(blk.t1.legs[idcs1[k] + 1], blk.t2.legs[idcs2[k] + 1])
          /\ LET legs1 == [k \in 1..Len(idcs1) |->
                              IF by_label THEN ByLabel(blk.t1.labels[idcs1[k] + 1])
                              ELSE ByIndex(idcs1[k])]
                 legs2 == [k \in 1..Len(idcs2) |->
                              IF by_label THEN ByLabel(blk.t2.labels[idcs2[k] + 1])
                              ELSE ByIndex(idcs2[k])]
             IN blk' = [blk EXCEPT !.op = "tdot", !.idcs1 = idcs1, !.idcs2 = idcs2,
                                   !.legs1 = legs1, !.legs2 = legs2,
                                   !.result = tdot(blk.t1, blk.t2, legs1, legs2)]
    /\ FactoryIdle /\ SvdIdle

(***************************************************************************)
(* NumpyBlockBackend.block_trace_full / block_trace_partial                *)
(***************************************************************************)

\* The most axes of a block handed to the trace functions.
MaxTraceNdim == 5

\* np.trace(a, axis1=axis1, axis2=axis2): the sum over the diagonal of the two axes; the
\* other axes keep their order.
np_trace(a, axis1, axis2) ==
    LET n == Len(a.shape)
        ax1 == IF axis1 < 0 THEN axis1 + n ELSE axis1
        ax2 == IF axis2 < 0 THEN axis2 + n ELSE axis2
        rest == NotIn(0, n, <<ax1, ax2>>)
        shape == [k \in 1..Len(rest) |-> a.shape[rest[k] + 1]]
        len == IF a.shape[ax1 + 1] < a.shape[ax2 + 1] THEN a.shape[ax1 + 1]
               ELSE a.shape[ax2 + 1]
    IN FromFn(shape, LAMBDA j :
           SumTo(len, LAMBDA i :
               Item(a, [ax \in 1..n |->
                           IF ax - 1 = ax1 \/ ax - 1 = ax2 THEN i
                           ELSE j[CHOOSE k \in 1..Len(rest) : rest[k] = ax - 1]])))

\* Lines 84-88.
block_trace_full(a, idcs1, idcs2) ==
    LET at == np_transpose(a, idcs1 \o idcs2)
        trace_dim == np_prod(Slice(at.shape, 0, Len(idcs1)))
        m == np_reshape(at, <<trace_dim, trace_dim>>)
    IN IF m.raised # None THEN m
       ELSE [raised |-> None] @@ np_trace(Unraised(m), 0, 1)

\* block_trace_partial with the traced axes moved to the front, not to the back.
block_trace_partial_front(a, idcs1, idcs2, remaining) ==
    LET at == np_transpose(a, idcs1 \o idcs2 \o remaining)
        nr == Len(remaining)
        trace_dim == np_prod(Slice(at.shape, nr, nr + Len(idcs1)))
        m == np_reshape(at, Ints(Slice(at.shape, 0, nr)) \o <<trace_dim, trace_dim>>)
    IN IF m.raised # None THEN m
       ELSE [raised |-> None] @@ np_trace(Unraised(m), -2, -1)

\* Lines 90-94.
block_trace_partial(a, idcs1, idcs2, remaining) ==
    LET at == np_transpose(a, remaining \o idcs1 \o idcs2)
        nr == Len(remaining)
        trace_dim == np_prod(Slice(at.shape, nr, nr + Len(idcs1)))
        m == np_reshape(at, Ints(Slice(at.shape, 0, nr)) \o <<trace_dim, trace_dim>>)
    IN IF m.raised # None THEN m
       ELSE [raised |-> None] @@ np_trace(Unraised(m), -2, -1)

\* The blocks handed to the trace functions: a trace is a sum of distinct entries, and
\* the entries 2^k tell which.
TraceBlocks == {GenericBlock(shape) : shape \in Shapes(MaxTraceNdim)}

TraceInit ==
    \E a \in TraceBlocks :
        blk = [op |-> "input", a |-> a, idcs1 |-> <<>>, idcs2 |-> <<>>, remaining |-> <<>>,
               result |-> [raised |-> None, shape |-> <<>>, data |-> <<>>]]

\* The ways to pair axes of a for a trace: idcs1[k] is traced with idcs2[k], both of
\* the same extent, over at least one pair; remaining lists the other axes in some order.
TracePairings(a) ==
    {p \in {<<SubSeq(o, 1, k), SubSeq(o, k + 1, 2 * k), SubSeq(o, 2 * k + 1, Len(o))>> :
                o \in Orderings(Axes(a)), k \in 1..(Len(a.shape) \div 2)} :
        \A k \in 1..Len(p[1]) : a.shape[p[1][k] + 1] = a.shape[p[2][k] + 1]}

\* block_trace_full(a, idcs1, idcs2): every axis is traced.
BlockTraceFull ==
    /\ blk.op = "input"
    /\ \E p \in TracePairings(blk.a) :
          /\ p[3] = <<>>
          /\ blk' = [blk EXCEPT !.op = "trace_full", !.idcs1 = p[1], !.idcs2 = p[2],
                                !.result = block_trace_full(blk.a, p[1], p[2])]
    /\ FactoryIdle /\ SvdIdle

\* block_trace_partial(a, idcs1, idcs2, remaining): some axes remain.
BlockTracePartial ==
    /\ blk.op = "input"
    /\ \E p \in TracePairings(blk.a) :
          /\ p[3] # <<>>
          /\ blk' = [blk EXCEPT !.op = "trace_partial", !.idcs1 = p[1], !.idcs2 = p[2],
                                !.remaining = p[3],
                                !.result = block_trace_partial(blk.a, p[1], p[2], p[3])]
    /\ FactoryIdle /\ SvdIdle

(***************************************************************************)
(* tensors.combine_legs / split_leg / split_legs on tensors without        *)
(* symmetry, whose data is one block, through block_transpose and          *)
(* block_reshape of NumpyBlockBackend.                                     *)
(* In this part a label is the sequence of its characters, so that the     *)
(* label of a combined leg can be put together and taken apart.            *)
(***************************************************************************)

\* The most legs of a tensor handed to combine_legs.
MaxCombineLegs == 3

\* The most entries of a tensor handed to combine_legs.
MaxCombineElems == 4

\* block_transpose by the inverse of the permutation.
block_transpose_inverse(a, permutation) == np_transpose(a, inverse_permutation(permutation))

\* Lines 81-82.
block_transpose(a, permutation) == np_transpose(a, permutation)

\* Lines 111-112.
block_reshape(a, shape) == np_reshape(a, Ints(shape))

\* The label of an unlabelled leg.
NoLabel == <<None>>

Digits == <<"0", "1", "2", "3", "4", "5", "6", "7", "8", "9">>

RECURSIVE Flatten(_)
Flatten(ss) == IF ss = <<>> THEN <<>> ELSE ss[1] \o Flatten(Tail(ss))

\* '.'.join(pieces)
RECURSIVE JoinDots(_)
JoinDots(pieces) ==
    IF pieces = <<>> THEN <<>>
    ELSE IF Len(pieces) = 1 THEN pieces[1]
    ELSE pieces[1] \o <<".">> \o JoinDots(Tail(pieces))

\* The label of a combined leg: '(a.b)'; an unlabelled leg at position n of the group
\* (from 0) stands as '?n'.
combine_leg_labels(labels) ==
    <<"(">>
    \o JoinDots([n \in 1..Len(labels) |->
                    IF labels[n] = NoLabel THEN <<"?", Digits[n]>> ELSE labels[n]])
    \o <<")">>

\* The pieces of s between the dots that are inside no parentheses, from position i on;
\* cur is the piece under way.
RECURSIVE SplitTopLevel(_, _, _, _)
SplitTopLevel(s, i, depth, cur) ==
    IF i > Len(s) THEN <<cur>>
    ELSE IF s[i] = "." /\ depth = 0
    THEN <<cur>> \o SplitTopLevel(s, i + 1, 0, <<>>)
    ELSE SplitTopLevel(s, i + 1,
                       depth + (IF s[i] = "(" THEN 1 ELSE IF s[i] = ")" THEN -1 ELSE 0),
                       Append(cur, s[i]))

\* The labels a combined label was made of; a label that is not of the form '(...)' is a
\* ValueError.
split_leg_label(label) ==
    IF Len(label) >= 2 /\ label[1] = "(" /\ label[Len(label)] = ")"
    THEN LET pieces == SplitTopLevel(SubSeq(label, 2, Len(label) - 1), 1, 0, <<>>) IN
         [raised |-> None,
          labels |-> [n \in 1..Len(pieces) |->
                         IF pieces[n] # <<>> /\ pieces[n][1] = "?" THEN NoLabel
                         ELSE pieces[n]]]
    ELSE [raised |-> "ValueError", labels |-> <<>>]

\* A leg without symmetry: its dimension and duality; spaces lists the legs a
\* ProductSpace was made of and is empty for a plain VectorSpace.
VectorSpace(dim, is_dual) == [dim |-> dim, is_dual |-> is_dual, spaces |-> <<>>]

ProductSpace(spaces, is_dual) ==
    [dim |-> Prod([k \in 1..Len(spaces) |-> spaces[k].dim]), is_dual |-> is_dual,
     spaces |-> spaces]

is_ProductSpace(leg) == leg.spaces # <<>>

\* No new_axes and no product_spaces_dual given.
NoAxes == <<>>
NoDuals == <<>>

\* Where the combined legs go and the transposition that brings the legs of each group
\* next to each other: without new_axes a combined leg stands where the first leg of
\* its group stood.
combine_legs_new_axes(num_legs, groups, new_axes) ==
    LET non_combined == NotIn(0, num_legs, Flatten(groups))
        m == Len(non_combined) + Len(groups)
        axes == IF new_axes = NoAxes
                THEN [g \in 1..Len(groups) |->
                        Cardinality({h \in 1..Len(groups) : groups[h][1] < groups[g][1]})
                        + Cardinality({x \in Range(non_combined) : x < groups[g][1]})]
                ELSE [g \in 1..Len(groups) |->
                        IF new_axes[g] < 0 THEN new_axes[g] + m ELSE new_axes[g]]
        slots == [p \in 1..m |->
                    IF \E g \in 1..Len(groups) : axes[g] = p - 1
                    THEN [group |-> CHOOSE g \in 1..Len(groups) : axes[g] = p - 1,
                          axes |-> groups[CHOOSE g \in 1..Len(groups) : axes[g] = p - 1]]
                    ELSE [group |-> 0,
                          axes |-> <<non_combined[
                              p - Cardinality({g \in 1..Len(groups) : axes[g] < p - 1})]>>]]
    IN [slots |-> slots, transp |-> Flatten([p \in 1..m |-> slots[p].axes])]

Returned(t) == [raised |-> None, t |-> t]

TensorRaised(exc) == [raised |-> exc, t |-> [data |-> NoBlock, legs |-> <<>>, labels |-> <<>>]]

\* tensors.combine_legs(t, *legs, new_axes, product_spaces_dual): each group of legs
\* becomes one leg, a ProductSpace of the legs of the group in the order given.
combine_legs(t, which_groups, new_axes, product_spaces_dual) ==
    IF \E g \in 1..Len(which_groups) : \E k \in 1..Len(which_groups[g]) :
           get_leg_idx(t, which_groups[g][k]).raised # None
    THEN TensorRaised("ValueError")
    ELSE LET groups == [g \in 1..Len(which_groups) |-> get_leg_idcs(t, which_groups[g])]
             plan == combine_legs_new_axes(Len(t.legs), groups, new_axes)
             m == Len(plan.slots)
             legs == [p \in 1..m |->
                        LET s == plan.slots[p]
                            spaces == [k \in 1..Len(s.axes) |-> t.legs[s.axes[k] + 1]]
                        IN IF s.group = 0 THEN spaces[1]
                           ELSE ProductSpace(spaces,
                                             IF product_spaces_dual = NoDuals
                                             THEN spaces[1].is_dual
                                             ELSE product_spaces_dual[s.group])]
             labels == [p \in 1..m |->
                          LET s == plan.slots[p]
                              ls == [k \in 1..Len(s.axes) |-> t.labels[s.axes[k] + 1]]
                          IN IF s.group = 0 THEN ls[1] ELSE combine_leg_labels(ls)]
             data == block_reshape(block_transpose(t.data, plan.transp),
                                   [p \in 1..m |-> legs[p].dim])
         IN IF data.raised # None THEN TensorRaised(data.raised)
            ELSE Returned([data |-> Unraised(data), legs |-> legs, labels |-> labels])

\* The leg at position leg_idx (from 0) replaced by the legs it was combined from.
split_leg_at(t, leg_idx) ==
    LET leg == t.legs[leg_idx + 1]
        n == Len(t.legs)
        parts == split_leg_label(t.labels[leg_idx + 1])
        legs == SubSeq(t.legs, 1, leg_idx) \o leg.spaces \o SubSeq(t.legs, leg_idx + 2, n)
        labels == SubSeq(t.labels, 1, leg_idx) \o parts.labels
                  \o SubSeq(t.labels, leg_idx + 2, n)
        data == block_reshape(t.data, [p \in 1..Len(legs) |-> legs[p].dim])
    IN IF ~is_ProductSpace(leg) THEN TensorRaised("ValueError")
       ELSE IF parts.raised # None THEN TensorRaised(parts.raised)
       ELSE IF Len(labels) # Len(legs) THEN TensorRaised("ValueError")
       ELSE IF data.raised # None THEN TensorRaised(data.raised)
       ELSE Returned([data |-> Unraised(data), legs |-> legs, labels |-> labels])

\* tensors.split_leg(t, leg): a leg that is no ProductSpace is a ValueError.
split_leg(t, which_leg) ==
    LET r == get_leg_idx(t, which_leg) IN
    IF r.raised # None THEN TensorRaised(r.raised) ELSE split_leg_at(t, r.idx)

\* The ProductSpace legs among the legs 0 .. leg_idx split, the last one first.
RECURSIVE split_legs_upto(_, _)
split_legs_upto(t, leg_idx) ==
    IF leg_idx < 0 THEN Returned(t)
    ELSE IF ~is_ProductSpace(t.legs[leg_idx + 1]) THEN split_legs_upto(t, leg_idx - 1)
    ELSE LET r == split_leg_at(t, leg_idx) IN
         IF r.raised # None THEN r ELSE split_legs_upto(r.t, leg_idx - 1)

\* tensors.split_legs(t): every leg that is a ProductSpace is split.
split_legs(t) == split_legs_upto(t, Len(t.legs) - 1)

CombineLabels == <<<<"a">>, <<"b">>, <<"c">>, <<"d">>, <<"e">>>>

\* A tensor without symmetry over the block data: the legs are dual in turn, and the
\* leg at position unlabelled (from 1; 0 for none) has no label.
CombineTensor(data, unlabelled) ==
    [data |-> data,
     legs |-> [i \in 1..Len(data.shape) |-> VectorSpace(data.shape[i], i % 2 = 0)],
     labels |-> [i \in 1..Len(data.shape) |->
                    IF i = unlabelled THEN NoLabel ELSE CombineLabels[i]]]

NoTensor == [data |-> NoBlock, legs |-> <<>>, labels |-> <<>>]

\* The tensors handed to combine_legs: fully labelled or with the last leg unlabelled,
\* and either with plain legs only or with the first two legs combined before.
CombineTensors ==
    LET plain == UNION {{CombineTensor(GenericBlock(shape), unlabelled) :
                            shape \in {s \in ShapesOfNdim(n) : Prod(s) <= MaxCombineElems},
                            unlabelled \in {0, n}} : n \in 1..MaxCombineLegs}
    IN plain
       \cup {combine_legs(t, <<<<ByIndex(0), ByIndex(1)>>>>, NoAxes, NoDuals).t :
                 t \in {x \in plain : Len(x.legs) >= 2}}

CombineInit ==
    \E t \in CombineTensors :
        blk = [op |-> "input", before |-> t, t |-> NoTensor, groups |-> <<>>,
               new_axes |-> NoAxes, combined_at |-> {}, by_label |-> FALSE, leg |-> 0,
               raised |-> None, result |-> NoTensor]

\* The non-empty lists of distinct axes among 0 .. n - 1.
GroupsOf(n) == UNION {Orderings(S) : S \in (SUBSET (0..(n - 1))) \ {{}}}

\* One group or two groups without a common axis.
GroupLists(n) ==
    {<<g>> : g \in GroupsOf(n)}
    \cup {gh \in GroupsOf(n) \X GroupsOf(n) : Range(gh[1]) \cap Range(gh[2]) = {}}

\* new_axes: not given, or the combined legs in the first places in exchanged order, or
\* the last place for a single combined leg.
NewAxesChoices(groups) ==
    {NoAxes, [g \in 1..Len(groups) |-> Len(groups) - g]}
    \cup (IF Len(groups) = 1 THEN {<<-1>>} ELSE {})

\* How a caller names the leg at position idx: by its label if asked to and it has one.
LegRef(t, idx, by_label) ==
    IF by_label /\ t.labels[idx + 1] # NoLabel THEN ByLabel(t.labels[idx + 1]) ELSE ByIndex(idx)

\* t = combine_legs(before, *groups, new_axes=..., product_spaces_dual=...)
CombineLegs ==
    /\ blk.op = "input"
    /\ \E groups \in GroupLists(Len(blk.before.legs)), by_label \in BOOLEAN,
          explicit_dual \in BOOLEAN :
          \E new_axes \in NewAxesChoices(groups) :
             LET which == [g \in 1..Len(groups) |->
                              [k \in 1..Len(groups[g]) |->
                                  LegRef(blk.before, groups[g][k], by_label)]]
                 duals == IF explicit_dual THEN [g \in 1..Len(groups) |-> g % 2 = 0]
                          ELSE NoDuals
                 r == combine_legs(blk.before, which, new_axes, duals)
             IN blk' = [blk EXCEPT !.op = "combined", !.t = r.t, !.groups = groups,
                                   !.new_axes = new_axes, !.by_label = by_label,
                                   !.combined_at =
                                       {p \in 0..(Len(r.t.legs) - 1) :
                                           combine_legs_new_axes(Len(blk.before.legs), groups,
                                                                 new_axes).slots[p + 1].group # 0},
                                   !.raised = r.raised]
    /\ FactoryIdle /\ SvdIdle

\* res = split_leg(t, leg) on any leg of the tensor combine_legs returned.
SplitLeg ==
    /\ blk.op = "combined"
    /\ blk.raised = None
    /\ \E idx \in 0..(Len(blk.t.legs) - 1) :
          LET r == split_leg(blk.t, LegRef(blk.t, idx, blk.by_label)) IN
          blk' = [blk EXCEPT !.op = "split_leg", !.leg = idx,
                             !.raised = r.raised, !.result = r.t]
    /\ FactoryIdle /\ SvdIdle

\* res = split_legs(t) on the tensor combine_legs returned.
SplitLegs ==
    /\ blk.op = "combined"
    /\ blk.raised = None
    /\ LET r == split_legs(blk.t) IN
       blk' = [blk EXCEPT !.op = "split_legs", !.raised = r.raised, !.result = r.t]
    /\ FactoryIdle /\ SvdIdle

(***************************************************************************)
(* Tensor.get_leg_idx on labelled and partly labelled tensors              *)
(***************************************************************************)

\* The most legs of a tensor whose legs are looked up.
MaxLookupLegs == 3

\* The labels legs carry, and a string that is the label of no leg.
LegLabels == {"foo", "a", "b"}
AbsentLabel == "bar"

\* The label lists of a tensor with n legs: a leg is unlabelled (None) or carries a
\* label no other leg carries.
LabelLists(n) ==
    {ls \in [1..n -> LegLabels \cup {None}] :
        \A i, j \in 1..n : (i # j /\ ls[i] # None) => ls[i] # ls[j]}

LookupInit ==
    \E n \in 1..MaxLookupLegs : \E ls \in LabelLists(n), is_dual \in BOOLEAN :
        blk = [op |-> "input",
               t |-> Tensor(GenericBlock([i \in 1..n |-> 1]), is_dual, ls),
               which_leg |-> ByNone, result |-> LookupRaised(None)]

\* What a caller passes as a leg: an integer in or out of range, a label, a string that
\* is no label, or None.
LegArgs(t) ==
    {ByIndex(i) : i \in (-(Len(t.labels) + 2))..(Len(t.labels) + 2)}
    \cup {ByLabel(l) : l \in LegLabels \cup {AbsentLabel}}
    \cup {ByNone}

\* t.get_leg_idx(which_leg)
GetLegIdx ==
    /\ blk.op = "input"
    /\ \E which_leg \in LegArgs(blk.t) :
          blk' = [blk EXCEPT !.op = "get_leg_idx", !.which_leg = which_leg,
                             !.result = get_leg_idx(blk.t, which_leg)]
    /\ FactoryIdle /\ SvdIdle

(***************************************************************************)
(* sparse.py: linear operators acting on tensors                           *)
(* A number is a pair <<re, im>> of integers. A tensor of this part is     *)
(* [legs, labels, data] without symmetry, data listing its entries in      *)
(* row-major order; a vector is a tensor with one leg.                     *)
(***************************************************************************)

CZero == <<0, 0>>
CAdd(x, y) == <<x[1] + y[1], x[2] + y[2]>>
CSub(x, y) == <<x[1] - y[1], x[2] - y[2]>>
CMul(x, y) == <<x[1] * y[1] - x[2] * y[2], x[1] * y[2] + x[2] * y[1]>>
CConj(x) == <<x[1], -x[2]>>

RECURSIVE CSum(_)
CSum(s) == IF s = <<>> THEN CZero ELSE CAdd(s[1], CSum(Tail(s)))

\* A Python scalar handed to an operator: a float or a complex number.
Float(x) == [value |-> <<x, 0>>, type |-> "float"]
Complex(re, im) == [value |-> <<re, im>>, type |-> "complex"]

\* np.iscomplexobj(x) and np.conj(x) of a scalar.
np_iscomplexobj(x) == x.type = "complex"
np_conj(x) == [x EXCEPT !.value = CConj(x.value)]

\* Dtype.to_complex and Dtype.common
to_complex(dtype) == IF dtype = "float64" THEN "complex128" ELSE dtype
common_dtype(dtypes) == IF "complex128" \in dtypes THEN "complex128" ELSE "float64"

\* a + b, a - b and s * a of tensors with the same legs: entry by entry.
tensor_add(a, b) == [a EXCEPT !.data = [k \in 1..Len(a.data) |-> CAdd(a.data[k], b.data[k])]]
tensor_sub(a, b) == [a EXCEPT !.data = [k \in 1..Len(a.data) |-> CSub(a.data[k], b.data[k])]]
tensor_scale(s, a) == [a EXCEPT !.data = [k \in 1..Len(a.data) |-> CMul(s, a.data[k])]]

\* a.inner(b): the entries of a conjugated.
tensor_inner(a, b) == CSum([k \in 1..Len(a.data) |-> CMul(CConj(a.data[k]), b.data[k])])

\* The label of the dual of a leg: a '*' is appended, or taken off if there is one.
dual_leg_label(label) ==
    CASE label = "a" -> "a*"
      [] label = "a*" -> "a"
      [] label = "b" -> "b*"
      [] label = "b*" -> "b"
      [] OTHER -> label

\* VectorSpace.dual
dual(leg) == [leg EXCEPT !.is_dual = ~leg.is_dual]

\* tensors.conj(t): the entries conjugated, every leg replaced by its dual.
tensor_conj(t) ==
    [t EXCEPT !.legs = [i \in 1..Len(t.legs) |-> dual(t.legs[i])],
              !.labels = [i \in 1..Len(t.labels) |-> dual_leg_label(t.labels[i])],
              !.data = [k \in 1..Len(t.data) |-> CConj(t.data[k])]]

NoVector == [legs |-> <<>>, labels |-> <<>>, data |-> <<>>]

VecReturned(vec) == [raised |-> None, vec |-> vec]
VecRaised(exc) == [raised |-> exc, vec |-> NoVector]

\* tensor.tdot(vec, which_leg, 0) of a two-leg tensor and a vector: the leg which_leg of
\* the tensor is contracted with the leg of the vector, the other leg is the leg of
\* the result.
tensor_tdot_vec(tensor, vec, which_leg) ==
    LET other_leg == 1 - which_leg
        rows == tensor.legs[1].dim
        cols == tensor.legs[2].dim
        Entry(i, j) == tensor.data[(i - 1) * cols + j]
    IN IF Len(vec.legs) # 1 THEN VecRaised("AssertionError")
       ELSE IF ~can_contract_with(tensor.legs[which_leg + 1], vec.legs[1])
       THEN VecRaised("ValueError")
       ELSE VecReturned(
               [legs |-> <<tensor.legs[other_leg + 1]>>,
                labels |-> <<tensor.labels[other_leg + 1]>>,
                data |-> [i \in 1..tensor.legs[other_leg + 1].dim |->
                             CSum([k \in 1..tensor.legs[which_leg + 1].dim |->
                                      CMul(IF which_leg = 1 THEN Entry(i, k) ELSE Entry(k, i),
                                           vec.data[k])])]])

\* res with its components along the vectors os taken off, one vector after the other:
\* res = res - o.inner(res) * o.
RECURSIVE project_out(_, _)

\* A loop that starts from the same res for every vector: only the component along the
\* last one is taken off.
project_out_last_only(res, os) ==
    IF os = <<>> THEN res
    ELSE LET o == os[Len(os)] IN tensor_sub(res, tensor_scale(tensor_inner(o, res), o))

project_out(res, os) ==
    IF os = <<>> THEN res
    ELSE project_out(tensor_sub(res, tensor_scale(tensor_inner(os[1], res), os[1])), Tail(os))

\* lanczos.gram_schmidt on vectors that are orthonormal already: the components along
\* the vectors before are taken off each vector; its norm is 1 then.
RECURSIVE gram_schmidt_from(_, _)
gram_schmidt_from(done, vecs) ==
    IF vecs = <<>> THEN done
    ELSE gram_schmidt_from(Append(done, project_out(vecs[1], done)), Tail(vecs))

gram_schmidt(vecs) == gram_schmidt_from(<<>>, vecs)

\* A class: one of the classes of sparse.py, or a subclass of it defined by a caller
\* that adds the methods subclass_defines and nothing else.
RepoClass(name) == [name |-> name, subclass_defines |-> {}]
SubClass(name, methods) == [name |-> name, subclass_defines |-> methods]

WrapperClassNames == {"TenpyLinearOperatorWrapper", "SumTenpyLinearOperator",
                      "ShiftedTenpyLinearOperator", "ProjectedTenpyLinearOperator"}

\* The methods declared with @abstractmethod that a class of sparse.py does not define.
declared_abstract(name) ==
    CASE name = "TenpyLinearOperator" -> {"matvec", "to_matrix"}
      [] name = "TenpyLinearOperatorWrapper" -> {"matvec", "to_matrix"}
      [] OTHER -> {"to_matrix"}

\* cls.__abstractmethods__
abstractmethods(cls) == declared_abstract(cls.name) \ cls.subclass_defines

is_wrapper(cls) == cls.name \in WrapperClassNames

NoOperator == [cls |-> RepoClass(None), dict |-> [none |-> TRUE]]

Constructed(op, warned) == [raised |-> None, op |-> op, warned |-> warned]
ConstructRaised(exc) == [raised |-> exc, op |-> NoOperator, warned |-> FALSE]

\* cls(...): a class with abstract methods left cannot be instantiated (TypeError, before
\* __init__ runs).
instantiate(cls, dict) ==
    IF abstractmethods(cls) # {} THEN ConstructRaised("TypeError")
    ELSE Constructed([cls |-> cls, dict |-> dict], FALSE)

\* getattr(op, name) for a data attribute: the instance __dict__ first; a wrapper then
\* asks its original_operator (__getattr__, lines 129-132), any other operator raises
\* AttributeError.
RECURSIVE getattr(_, _)
RECURSIVE getattr_innermost(_, _)

\* getattr of a wrapper that asks its original_operator even for what it set itself.
getattr_innermost(op, name) ==
    IF is_wrapper(op.cls) THEN getattr_innermost(op.dict.original_operator, name)
    ELSE IF name \in DOMAIN op.dict THEN [raised |-> None, value |-> op.dict[name]]
    ELSE [raised |-> "AttributeError", value |-> None]

getattr(op, name) ==
    IF name \in DOMAIN op.dict THEN [raised |-> None, value |-> op.dict[name]]
    ELSE IF is_wrapper(op.cls) THEN getattr(op.dict.original_operator, name)
    ELSE [raised |-> "AttributeError", value |-> None]

\* A concrete operator of a caller: a subclass of TenpyLinearOperator that defines matvec
\* (by a two-leg tensor, contracted over its second leg) and to_matrix, and adjoint
\* (returning itself, for a hermitian operator) or not. TenpyLinearOperator.__init__,
\* lines 38-40, sets vector_shape and dtype.
ConcreteOperator(matrix, dtype, hermitian) ==
    instantiate(SubClass("TenpyLinearOperator",
                         {"matvec", "to_matrix"} \cup (IF hermitian THEN {"adjoint"} ELSE {})),
                [vector_shape |-> [legs |-> <<matrix.legs[1]>>, labels |-> <<matrix.labels[1]>>],
                 dtype |-> dtype, matrix |-> matrix])

\* TensorLinearOperator(tensor, which_leg), lines 84-93; cls is TensorLinearOperator or a
\* subclass of it.
TensorLinearOperator(cls, tensor, which_leg) ==
    IF abstractmethods(cls) # {} THEN ConstructRaised("TypeError")
    ELSE IF Len(tensor.legs) > 2 THEN ConstructRaised("ValueError")
    ELSE IF Len(tensor.legs) < 2 THEN ConstructRaised("IndexError")
    ELSE IF ~can_contract_with(tensor.legs[1], tensor.legs[2]) THEN ConstructRaised("ValueError")
    ELSE LET r == get_leg_idx(tensor, which_leg)
             other_leg == 1 - r.idx
         IN IF r.raised # None THEN ConstructRaised(r.raised)
            ELSE instantiate(cls, [which_leg |-> r.idx, other_leg |-> other_leg,
                                   tensor |-> tensor,
                                   vector_shape |-> [legs |-> <<tensor.legs[other_leg + 1]>>,
                                                     labels |-> tensor.labels[other_leg + 1]],
                                   dtype |-> tensor.dtype])

\* SumTenpyLinearOperator(original_operator, *more_operators), lines 153-157.
SumTenpyLinearOperator(cls, original_operator, more_operators) ==
    IF abstractmethods(cls) # {} THEN ConstructRaised("TypeError")
    ELSE IF \E k \in 1..Len(more_operators) :
                getattr(more_operators[k], "vector_shape").value.legs
                # getattr(original_operator, "vector_shape").value.legs
    THEN ConstructRaised("AssertionError")
    ELSE instantiate(cls, [original_operator |-> original_operator,
                           more_operators |-> more_operators,
                           dtype |-> common_dtype(
                               {getattr(original_operator, "dtype").value}
                               \cup {getattr(more_operators[k], "dtype").value :
                                        k \in 1..Len(more_operators)})])

\* ShiftedTenpyLinearOperator(original_operator, shift), lines 172-178: dtype is set only
\* for a complex shift.
ShiftedTenpyLinearOperator(cls, original_operator, shift) ==
    IF abstractmethods(cls) # {} THEN ConstructRaised("TypeError")
    ELSE [instantiate(cls,
                      IF np_iscomplexobj(shift)
                      THEN [original_operator |-> original_operator, shift |-> shift,
                            dtype |-> to_complex(getattr(original_operator, "dtype").value)]
                      ELSE [original_operator |-> original_operator, shift |-> shift])
          EXCEPT !.warned = (shift.value = CZero)]

\* penalty=None
NoPenalty == [value |-> CZero, type |-> None]

\* ProjectedTenpyLinearOperator(original_operator, ortho_vecs, penalty), lines 210-218;
\* penalty is a scalar or NoPenalty.
ProjectedTenpyLinearOperator(cls, original_operator, ortho_vecs, penalty) ==
    IF abstractmethods(cls) # {} THEN ConstructRaised("TypeError")
    ELSE IF \E k \in 1..Len(ortho_vecs) :
                ortho_vecs[k].legs # getattr(original_operator, "vector_shape").value.legs
    THEN ConstructRaised("AssertionError")
    ELSE [instantiate(cls, [original_operator |-> original_operator,
                            ortho_vecs |-> gram_schmidt(ortho_vecs),
                            penalty |-> penalty])
          EXCEPT !.warned = (Len(ortho_vecs) = 0)]

Reverse(s) == [k \in 1..Len(s) |-> s[Len(s) + 1 - k]]

\* The coefficients c = o.inner(res) of the first loop of ProjectedTenpyLinearOperator
\* .matvec, res losing its component along each o in turn (lines 224-227).
RECURSIVE projection_coefficients(_, _)
projection_coefficients(res, os) ==
    IF os = <<>> THEN <<>>
    ELSE LET c == tensor_inner(os[1], res) IN
         <<c>> \o projection_coefficients(tensor_sub(res, tensor_scale(c, os[1])), Tail(os))

\* res + penalty * c * o for each coefficient c and vector o (lines 238-239).
RECURSIVE add_penalty(_, _, _, _)
add_penalty(res, penalty, coefficients, os) ==
    IF os = <<>> THEN res
    ELSE add_penalty(tensor_add(res, tensor_scale(CMul(penalty, coefficients[1]), os[1])),
                     penalty, Tail(coefficients), Tail(os))

\* op.matvec(vec): the method of the class of op.
RECURSIVE matvec(_, _)
RECURSIVE sum_matvec(_, _, _)

\* sum(iterable, start) over the matvec of each operator (line 160).
\* A sum that stops at its start value.
sum_matvec_start_only(acc, ops, vec) == VecReturned(acc)

sum_matvec(acc, ops, vec) ==
    IF ops = <<>> THEN VecReturned(acc)
    ELSE LET r == matvec(ops[1], vec) IN
         IF r.raised # None THEN r ELSE sum_matvec(tensor_add(acc, r.vec), Tail(ops), vec)

matvec(op, vec) ==
    CASE op.cls.name = "TenpyLinearOperator" ->
            tensor_tdot_vec(op.dict.matrix, vec, 1)
      [] op.cls.name = "TensorLinearOperator" ->
            \* lines 95-97
            tensor_tdot_vec(op.dict.tensor, vec, op.dict.which_leg)
      [] op.cls.name = "SumTenpyLinearOperator" ->
            \* lines 159-160
            LET start == matvec(op.dict.original_operator, vec) IN
            IF start.raised # None THEN start
            ELSE sum_matvec(start.vec, op.dict.more_operators, vec)
      [] op.cls.name = "ShiftedTenpyLinearOperator" ->
            \* lines 180-181
            LET r == matvec(op.dict.original_operator, vec) IN
            IF r.raised # None THEN r
            ELSE VecReturned(tensor_add(r.vec, tensor_scale(op.dict.shift.value, vec)))
      [] op.cls.name = "ProjectedTenpyLinearOperator" ->
            \* lines 220-240
            LET os == op.dict.ortho_vecs
                coefficients == projection_coefficients(vec, os)
                r == matvec(op.dict.original_operator, project_out(vec, os))
            IN IF r.raised # None THEN r
               ELSE LET res == project_out(r.vec, Reverse(os)) IN
                    IF op.dict.penalty.type = None THEN VecReturned(res)
                    ELSE VecReturned(add_penalty(res, op.dict.penalty.value, coefficients, os))
      [] OTHER -> VecRaised("NotImplementedError")

\* op.adjoint(): the method of the class of op. A wrapper asks the operators it wraps
\* first and then instantiates its own class of sparse.py on the results.
RECURSIVE adjoint(_)
RECURSIVE adjoints(_)

\* op.adjoint() for each operator of a list, up to the first that raises.
adjoints(ops) ==
    IF ops = <<>> THEN [raised |-> None, ops |-> <<>>]
    ELSE LET r == adjoint(ops[1]) IN
         IF r.raised # None THEN [raised |-> r.raised, ops |-> <<>>]
         ELSE LET rest == adjoints(Tail(ops)) IN
              IF rest.raised # None THEN rest
              ELSE [raised |-> None, ops |-> <<r.op>> \o rest.ops]

adjoint(op) ==
    CASE op.cls.name = "TenpyLinearOperator" ->
            \* lines 61-67, unless the subclass defines it
            IF "adjoint" \in op.cls.subclass_defines THEN Constructed(op, FALSE)
            ELSE ConstructRaised("NotImplementedError")
      [] op.cls.name = "TensorLinearOperator" ->
            \* lines 99-100
            TensorLinearOperator(RepoClass("TensorLinearOperator"),
                                 tensor_conj(op.dict.tensor), ByIndex(op.dict.other_leg))
      [] op.cls.name = "SumTenpyLinearOperator" ->
            \* lines 162-164
            LET first == adjoint(op.dict.original_operator) IN
            IF first.raised # None THEN ConstructRaised(first.raised)
            ELSE LET more == adjoints(op.dict.more_operators) IN
                 IF more.raised # None THEN ConstructRaised(more.raised)
                 ELSE SumTenpyLinearOperator(RepoClass("SumTenpyLinearOperator"),
                                             first.op, more.ops)
      [] op.cls.name = "ShiftedTenpyLinearOperator" ->
            \* lines 183-185
            LET inner == adjoint(op.dict.original_operator) IN
            IF inner.raised # None THEN ConstructRaised(inner.raised)
            ELSE ShiftedTenpyLinearOperator(RepoClass("ShiftedTenpyLinearOperator"),
                                            inner.op, np_conj(op.dict.shift))
      [] op.cls.name = "ProjectedTenpyLinearOperator" ->
            \* lines 242-247
            LET inner == adjoint(op.dict.original_operator) IN
            IF inner.raised # None THEN ConstructRaised(inner.raised)
            ELSE ProjectedTenpyLinearOperator(
                     RepoClass("ProjectedTenpyLinearOperator"), inner.op, op.dict.ortho_vecs,
                     IF op.dict.penalty.type = None THEN NoPenalty
                     ELSE np_conj(op.dict.penalty))
      [] OTHER -> ConstructRaised("NotImplementedError")

\* range(10000) of unwrapped, line 142.
UnwrapLimit == 10000

\* op.unwrapped(recursive), lines 134-148: the loop asks parent.unwrapped(), itself
\* recursive, until parent has no method unwrapped.
RECURSIVE unwrapped(_, _)
RECURSIVE unwrap_loop(_, _)

unwrap_loop(parent, i) ==
    IF i >= UnwrapLimit THEN ConstructRaised("ValueError")
    ELSE IF ~is_wrapper(parent.cls) THEN Constructed(parent, FALSE)
    ELSE LET r == unwrapped(parent, TRUE) IN
         IF r.raised # None THEN r ELSE unwrap_loop(r.op, i + 1)

\* unwrapped taking one step only, whatever recursive says.
unwrapped_one_step(op, recursive) == Constructed(op.dict.original_operator, FALSE)

unwrapped(op, recursive) ==
    LET parent == op.dict.original_operator IN
    IF ~recursive THEN Constructed(parent, FALSE)
    ELSE unwrap_loop(parent, 0)

\* The most wrappers put around one operator.
MaxWrapDepth == 2

\* The leg of the vectors and its dual; they have three entries.
VectorLeg == [dim |-> 3, is_dual |-> FALSE]

\* Entries of vectors: a vector with no zero entry, two orthonormal vectors (e1 and
\* i * e3), a vector in their span, and vectors orthogonal to e1 and to both.
VectorData ==
    {<<<<1, 2>>, <<3, -1>>, <<2, 0>>>>,
     <<<<1, 0>>, <<0, 0>>, <<0, 0>>>>,
     <<<<0, 0>>, <<0, 0>>, <<0, 1>>>>,
     <<<<2, 0>>, <<0, 0>>, <<-1, 1>>>>,
     <<<<0, 0>>, <<1, 1>>, <<2, 0>>>>,
     <<<<0, 0>>, <<2, -1>>, <<0, 0>>>>}

Vector(leg, data) == [legs |-> <<leg>>, labels |-> <<"v">>, data |-> data]

Vectors(leg) == {Vector(leg, data) : data \in VectorData}

\* The lists of excluded vectors handed to ProjectedTenpyLinearOperator: orthonormal.
OrthoVecs(leg) ==
    {<<>>,
     <<Vector(leg, <<<<1, 0>>, <<0, 0>>, <<0, 0>>>>)>>,
     <<Vector(leg, <<<<1, 0>>, <<0, 0>>, <<0, 0>>>>),
       Vector(leg, <<<<0, 0>>, <<0, 0>>, <<0, 1>>>>)>>,
     <<Vector(leg, <<<<0, 0>>, <<-1, 0>>, <<0, 0>>>>),
       Vector(leg, <<<<0, 0>>, <<0, 0>>, <<0, 1>>>>),
       Vector(leg, <<<<1, 0>>, <<0, 0>>, <<0, 0>>>>)>>}

\* The penalties handed to ProjectedTenpyLinearOperator with a list of excluded vectors:
\* none, a real and a complex one with two vectors, one of them with the other lists.
Penalties(ortho_vecs) ==
    CASE Len(ortho_vecs) = 0 -> {NoPenalty}
      [] Len(ortho_vecs) = 2 -> {NoPenalty, Float(5), Complex(0, 2)}
      [] OTHER -> {Float(5)}

\* Two-leg tensors with contractible legs: one with complex entries, all different, and
\* a real symmetric one.
ComplexMatrix ==
    [legs |-> <<VectorLeg, dual(VectorLeg)>>, labels |-> <<"a", "b">>, dtype |-> "complex128",
     data |-> [k \in 1..9 |-> <<k, ((k - 1) \div 3) - ((k - 1) % 3)>>]]

RealSymmetricMatrix ==
    [legs |-> <<VectorLeg, dual(VectorLeg)>>, labels |-> <<"a", "b">>, dtype |-> "float64",
     data |-> [k \in 1..9 |-> <<(((k - 1) \div 3) + 1) * (((k - 1) % 3) + 1), 0>>]]

\* The same entries on legs that are not contractible, and a tensor with three legs.
UncontractibleMatrix == [ComplexMatrix EXCEPT !.legs = <<VectorLeg, VectorLeg>>]
ThreeLegTensor ==
    [legs |-> <<VectorLeg, dual(VectorLeg), [dim |-> 1, is_dual |-> FALSE]>>,
     labels |-> <<"a", "b", None>>, dtype |-> "complex128", data |-> ComplexMatrix.data]

\* A tensor with one leg.
OneLegTensor ==
    [legs |-> <<VectorLeg>>, labels |-> <<"a">>, dtype |-> "complex128",
     data |-> <<<<1, 0>>, <<2, -1>>, <<3, -2>>>>]

\* The operators of a caller that the wrappers are put around.
ConcreteOperators ==
    {ConcreteOperator(ComplexMatrix, "complex128", FALSE).op,
     ConcreteOperator(RealSymmetricMatrix, "float64", FALSE).op,
     ConcreteOperator(RealSymmetricMatrix, "float64", TRUE).op}

\* An operator of a caller whose vectors live on the dual leg.
OtherShapeOperator ==
    ConcreteOperator([ComplexMatrix EXCEPT !.legs = <<dual(VectorLeg), VectorLeg>>],
                     "complex128", FALSE).op

\* The further operators handed to SumTenpyLinearOperator: none, one, two, and one with
\* another vector shape.
MoreOperators ==
    {<<>>,
     <<ConcreteOperator(RealSymmetricMatrix, "float64", TRUE).op>>,
     <<ConcreteOperator(ComplexMatrix, "complex128", FALSE).op,
       ConcreteOperator(RealSymmetricMatrix, "float64", TRUE).op>>,
     <<OtherShapeOperator>>}

\* A class of sparse.py as it is, and a subclass of a caller that defines to_matrix.
ClassesOf(name) == {RepoClass(name), SubClass(name, {"to_matrix"})}

NoConstruct == [cls |-> RepoClass(None), shift |-> Float(0), penalty |-> NoPenalty,
                ortho_vecs |-> <<>>, more_operators |-> <<>>, which_leg |-> ByNone]

NoVecResult == VecRaised("none")
NoOpResult == ConstructRaised("none")
NoAttrResult == [raised |-> "none", value |-> None]

SparseInit ==
    blk = [op |-> "init", stack |-> NoOperator, chain |-> <<>>, raised |-> None,
           warned |-> FALSE, construct |-> NoConstruct, tensor |-> ComplexMatrix,
           vec |-> NoVector, mv |-> NoVecResult, adj |-> NoOpResult,
           recursive |-> FALSE, unw |-> NoOpResult, attr |-> None, got |-> NoAttrResult]

\* The state after a constructor call: the operator is on top of the stack, or the
\* exception of the constructor ends the run.
AfterConstruct(op, r, construct) ==
    [blk EXCEPT !.op = op, !.construct = construct, !.raised = r.raised, !.warned = r.warned,
                !.stack = IF r.raised = None THEN r.op ELSE blk.stack,
                !.chain = IF r.raised = None THEN Append(blk.chain, r.op) ELSE blk.chain]

Running == blk.op \in {"new", "wrap"} /\ blk.raised = None

\* An operator of a caller is there to be wrapped.
NewConcreteOperator ==
    /\ blk.op = "init"
    /\ \E H \in ConcreteOperators :
          blk' = AfterConstruct("new", Constructed(H, FALSE), [NoConstruct EXCEPT !.cls = H.cls])
    /\ FactoryIdle /\ SvdIdle

\* TensorLinearOperator(tensor, which_leg)
NewTensorLinearOperator ==
    /\ blk.op = "init"
    /\ \E cls \in ClassesOf("TensorLinearOperator"),
          tensor \in {ComplexMatrix, RealSymmetricMatrix, UncontractibleMatrix, ThreeLegTensor,
                     OneLegTensor},
          which_leg \in {ByIndex(-1), ByIndex(0), ByIndex(1), ByLabel("a")} :
          blk' = [AfterConstruct("new", TensorLinearOperator(cls, tensor, which_leg),
                                 [NoConstruct EXCEPT !.cls = cls, !.which_leg = which_leg])
                  EXCEPT !.tensor = tensor]
    /\ FactoryIdle /\ SvdIdle

StackLeg == getattr(blk.stack, "vector_shape").value.legs[1]

\* ShiftedTenpyLinearOperator(stack, shift)
WrapShifted ==
    /\ Running /\ Len(blk.chain) <= MaxWrapDepth
    /\ \E cls \in ClassesOf("ShiftedTenpyLinearOperator"),
          shift \in {Float(2), Complex(0, 1), Float(0)} :
          blk' = AfterConstruct("wrap", ShiftedTenpyLinearOperator(cls, blk.stack, shift),
                                [NoConstruct EXCEPT !.cls = cls, !.shift = shift])
    /\ FactoryIdle /\ SvdIdle

\* SumTenpyLinearOperator(stack, *more_operators)
WrapSum ==
    /\ Running /\ Len(blk.chain) <= MaxWrapDepth
    /\ \E cls \in ClassesOf("SumTenpyLinearOperator"),
          more_operators \in MoreOperators :
          blk' = AfterConstruct("wrap", SumTenpyLinearOperator(cls, blk.stack, more_operators),
                                [NoConstruct EXCEPT !.cls = cls,
                                                    !.more_operators = more_operators])
    /\ FactoryIdle /\ SvdIdle

\* ProjectedTenpyLinearOperator(stack, ortho_vecs, penalty)
WrapProjected ==
    /\ Running /\ Len(blk.chain) <= MaxWrapDepth
    /\ \E cls \in ClassesOf("ProjectedTenpyLinearOperator"),
          ortho_vecs \in OrthoVecs(StackLeg) :
       \E penalty \in Penalties(ortho_vecs) :
          blk' = AfterConstruct("wrap",
                                ProjectedTenpyLinearOperator(cls, blk.stack, ortho_vecs, penalty),
                                [NoConstruct EXCEPT !.cls = cls, !.ortho_vecs = ortho_vecs,
                                                    !.penalty = penalty])
    /\ FactoryIdle /\ SvdIdle

\* stack.matvec(vec) for a vector of the declared shape
Matvec ==
    /\ Running
    /\ \E vec \in Vectors(StackLeg) :
          blk' = [blk EXCEPT !.op = "matvec", !.vec = vec, !.mv = matvec(blk.stack, vec)]
    /\ FactoryIdle /\ SvdIdle

\* stack.adjoint()
Adjoint ==
    /\ Running
    /\ blk' = [blk EXCEPT !.op = "adjoint", !.adj = adjoint(blk.stack)]
    /\ FactoryIdle /\ SvdIdle

\* stack.unwrapped(recursive) of a wrapper
Unwrapped ==
    /\ Running /\ is_wrapper(blk.stack.cls)
    /\ \E recursive \in BOOLEAN :
          blk' = [blk EXCEPT !.op = "unwrapped", !.recursive = recursive,
                             !.unw = unwrapped(blk.stack, recursive)]
    /\ FactoryIdle /\ SvdIdle

\* getattr(stack, name) for the name of a data attribute
GetAttr ==
    /\ Running
    /\ \E name \in {"vector_shape", "dtype", "matrix", "tensor", "which_leg", "shift",
                    "penalty", "more_operators", "foo"} :
          blk' = [blk EXCEPT !.op = "getattr", !.attr = name, !.got = getattr(blk.stack, name)]
    /\ FactoryIdle /\ SvdIdle

(***************************************************************************)
(* tests/benchmark/misc.py: conversion to the arrays of the old library    *)
(* A symmetry is [cls, N, factors]; a backend is one of the classes put    *)
(* together from a block backend and a symmetry backend.                   *)
(***************************************************************************)

\* The most factors of a ProductSymmetry.
MaxFactors == 2

NoSymmetry == [cls |-> "NoSymmetry", N |-> 0, factors |-> <<>>]
U1Symmetry == [cls |-> "U1Symmetry", N |-> 0, factors |-> <<>>]
ZNSymmetry(N) == [cls |-> "ZNSymmetry", N |-> N, factors |-> <<>>]
SU2Symmetry == [cls |-> "SU2Symmetry", N |-> 0, factors |-> <<>>]
FermionParity == [cls |-> "FermionParity", N |-> 0, factors |-> <<>>]
ProductSymmetry(factors) == [cls |-> "ProductSymmetry", N |-> 0, factors |-> factors]

\* The symmetries of an abelian group, and the others.
AbelianGroupSymmetries == {NoSymmetry, U1Symmetry, ZNSymmetry(2), ZNSymmetry(3)}
FactorSymmetries == AbelianGroupSymmetries \cup {SU2Symmetry, FermionParity}

FactorLists(S) == UNION {[1..n -> S] : n \in 1..MaxFactors}

ConvertSymmetries == FactorSymmetries \cup {ProductSymmetry(fs) : fs \in FactorLists(FactorSymmetries)}

QmodReturned(qmod) == [raised |-> None, qmod |-> qmod]
QmodRaised(exc) == [raised |-> exc, qmod |-> <<>>]

\* get_qmod(sym), lines 173-186
RECURSIVE get_qmod(_)
RECURSIVE get_qmod_extend(_, _)

\* The loop of lines 177-178: qmod.extend(get_qmod(s)) for each factor.
get_qmod_extend(qmod, factors) ==
    IF factors = <<>> THEN QmodReturned(qmod)
    ELSE LET r == get_qmod(factors[1]) IN
         IF r.raised # None THEN r ELSE get_qmod_extend(qmod \o r.qmod, Tail(factors))

get_qmod(sym) ==
    IF sym.cls = "ProductSymmetry" THEN get_qmod_extend(<<>>, sym.factors)
    ELSE IF sym.cls = "U1Symmetry" THEN QmodReturned(<<1>>)
    ELSE IF sym.cls = "ZNSymmetry" THEN QmodReturned(<<sym.N>>)
    ELSE IF sym.cls = "NoSymmetry" THEN QmodReturned(<<>>)
    ELSE QmodRaised("NotImplementedError")

\* The backend classes: numpy.py lines 188-197 and their torch counterparts.
BackendClass(block, kind) == [block |-> block, kind |-> kind]

ConvertBackends ==
    {BackendClass(block, kind) : block \in {"numpy", "torch"},
                                 kind \in {"no_symmetry", "abelian", "nonabelian"}}

\* backend.supports_symmetry(symmetry)
supports_symmetry(backend, symmetry) ==
    CASE backend.kind = "no_symmetry" -> symmetry = NoSymmetry
      [] backend.kind = "abelian" ->
            \/ symmetry \in AbelianGroupSymmetries
            \/ /\ symmetry.cls = "ProductSymmetry"
               /\ \A k \in 1..Len(symmetry.factors) : symmetry.factors[k] \in AbelianGroupSymmetries
      [] OTHER -> TRUE

\* old_tenpy.linalg.charges.ChargeInfo(qmod)
ChargeInfo(qmod) == [qmod |-> qmod, qnumber |-> Len(qmod)]

NoChargeInfo == [qmod |-> <<>>, qnumber |-> -1]

NoArray == [trivial |-> FALSE, chinfo |-> NoChargeInfo, qconj |-> <<>>]

ArrayReturned(array) == [raised |-> None, array |-> array]
ArrayRaised(exc) == [raised |-> exc, array |-> NoArray]

\* convert_VectorSpace_to_LegCharge(leg, old_tenpy, chinfo) for a given chinfo, lines
\* 197-200: qconj of the LegCharge.
convert_VectorSpace_to_LegCharge(leg) == IF leg.is_dual THEN -1 ELSE 1

\* convert_Tensor_to_Array(a, old_tenpy, chinfo), lines 203-222
convert_Tensor_to_Array(a, chinfo) ==
    IF a.backend.block # "numpy" THEN ArrayRaised("NotImplementedError")
    ELSE IF a.backend.kind = "no_symmetry"
    THEN ArrayReturned([trivial |-> TRUE, chinfo |-> ChargeInfo(<<>>), qconj |-> <<>>])
    ELSE IF a.backend.kind # "abelian" THEN ArrayRaised("AssertionError")
    ELSE LET q == IF chinfo = NoChargeInfo THEN get_qmod(a.symmetry)
                  ELSE QmodReturned(chinfo.qmod)
         IN IF q.raised # None THEN ArrayRaised(q.raised)
            ELSE ArrayReturned(
                    [trivial |-> FALSE, chinfo |-> ChargeInfo(q.qmod),
                     qconj |-> [k \in 1..Len(a.legs) |->
                                   convert_VectorSpace_to_LegCharge(a.legs[k])]])

\* The tensors handed to the converter: the backend supports the symmetry, and every
\* leg has the symmetry of the tensor.
ConvertTensor(backend, symmetry, num_legs) ==
    [backend |-> backend, symmetry |-> symmetry,
     legs |-> [k \in 1..num_legs |-> [symmetry |-> symmetry, is_dual |-> (k % 2 = 0)]]]

ConvertTensors ==
    {t \in {ConvertTensor(b, s, n) : b \in ConvertBackends, s \in ConvertSymmetries, n \in 1..2} :
        supports_symmetry(t.backend, t.symmetry)}

NoConvertTensor == [backend |-> BackendClass(None, None), symmetry |-> NoSymmetry, legs |-> <<>>]

ConvertInit ==
    blk = [op |-> "init", sym |-> NoSymmetry, a |-> NoConvertTensor, chinfo |-> NoChargeInfo,
           qmod |-> QmodRaised("none"), res |-> ArrayRaised("none")]

\* One call get_qmod(sym)
GetQmod ==
    /\ blk.op = "init"
    /\ \E sym \in ConvertSymmetries :
          blk' = [blk EXCEPT !.op = "get_qmod", !.sym = sym, !.qmod = get_qmod(sym)]
    /\ FactoryIdle /\ SvdIdle

\* One call convert_Tensor_to_Array(a, old_tenpy, chinfo), chinfo left out or the one
\* that belongs to the symmetry.
ConvertTensorToArray ==
    /\ blk.op = "init"
    /\ \E a \in ConvertTensors, given \in BOOLEAN :
          LET q == get_qmod(a.symmetry)
              chinfo == IF given /\ q.raised = None THEN ChargeInfo(q.qmod) ELSE NoChargeInfo
          IN blk' = [blk EXCEPT !.op = "convert", !.a = a, !.chinfo = chinfo,
                                !.res = convert_Tensor_to_Array(a, chinfo)]
    /\ FactoryIdle /\ SvdIdle

\* One call get_backend(symmetry, block_backend, symmetry_backend).
GetBackend ==
    \E symmetry \in Symmetries, block_backend \in BlockBackendArgs,
       symmetry_backend \in SymmetryBackendArgs :
        LET r == get_backend(instantiated_backends, num_constructed,
                             symmetry, block_backend, symmetry_backend) IN
        /\ r.n <= MaxBackends
        /\ instantiated_backends' = r.cache
        /\ num_constructed' = r.n
        /\ returned' = IF r.outcome = "ok"
                       THEN returned \cup {[kind |-> r.kind, block_backend |-> block_backend,
                                            options |-> r.backend.kwargs, id |-> r.backend.id]}
                       ELSE returned
        /\ call' = [symmetry |-> symmetry, block_backend |-> block_backend,
                    symmetry_backend |-> symmetry_backend,
                    outcome |-> r.outcome, kind |-> r.kind, key |-> r.key,
                    backend |-> r.backend, constructed |-> r.constructed]
        /\ SvdIdle /\ BlockIdle

\* One call matrix_svd(a, algorithm) on a NumpyBlockBackend.
MatrixSvd ==
    \E a \in 1..NumMatrices, algorithm \in SvdAlgorithmArgs, converges \in BOOLEAN :
        LET r == matrix_svd(a, algorithm, converges) IN
        /\ Len(svd_drivers) + Len(r.drivers) <= MaxDriverRuns
        /\ svd_call' = [a |-> a, algorithm |-> algorithm, converges |-> converges,
                        outcome |-> r.outcome, raised_at |-> r.raised_at,
                        message |-> r.message, drivers |-> r.drivers, result |-> r.result]
        /\ svd_drivers' = svd_drivers \o r.drivers
        /\ FactoryIdle /\ BlockIdle

Init == FactoryInit /\ SvdInit /\ BlockIdleInit

Next == GetBackend

\* The backend factory on its own.
Spec == Init /\ [][Next]_vars

NextSvd == MatrixSvd

\* matrix_svd on its own.
SpecSvd == Init /\ [][NextSvd]_vars

InitMatrixify == FactoryInit /\ SvdInit /\ MatrixifyInit

NextMatrixify == BlockMatrixify \/ BlockDematrixify

\* block_matrixify followed by block_dematrixify, on every block and split.
SpecMatrixify == InitMatrixify /\ [][NextMatrixify]_vars

InitTdot == FactoryInit /\ SvdInit /\ TdotInit

NextTdot == Tdot

\* tdot of two tensors without symmetry.
SpecTdot == InitTdot /\ [][NextTdot]_vars

InitTrace == FactoryInit /\ SvdInit /\ TraceInit

NextTrace == BlockTraceFull \/ BlockTracePartial

\* The full and the partial trace of a block.
SpecTrace == InitTrace /\ [][NextTrace]_vars

InitCombine == FactoryInit /\ SvdInit /\ CombineInit

NextCombine == CombineLegs \/ SplitLeg \/ SplitLegs

\* combine_legs followed by split_leg or split_legs.
SpecCombine == InitCombine /\ [][NextCombine]_vars

InitLookup == FactoryInit /\ SvdInit /\ LookupInit

NextLookup == GetLegIdx

\* get_leg_idx on every tensor and every kind of argument.
SpecLookup == InitLookup /\ [][NextLookup]_vars

InitSparse == FactoryInit /\ SvdInit /\ SparseInit

NextSparse ==
    \/ NewConcreteOperator
    \/ NewTensorLinearOperator
    \/ WrapShifted
    \/ WrapSum
    \/ WrapProjected
    \/ Matvec
    \/ Adjoint
    \/ Unwrapped
    \/ GetAttr

\* The operators of sparse.py: an operator is made, wrapped, and then asked once.
SpecSparse == InitSparse /\ [][NextSparse]_vars

InitConvert == ConvertInit /\ FactoryInit /\ SvdInit

NextConvert == GetQmod \/ ConvertTensorToArray

SpecConvert == InitConvert /\ [][NextConvert]_vars

(***************************************************************************)
(* tests/benchmark/misc.py: random distinct integers and partitions        *)
(* A numpy array of integers is the sequence of its entries.  A call of    *)
(* numpy's random generator is an input: `draw` is the array it returned,  *)
(* one of all the arrays it can return.                                    *)
(***************************************************************************)

\* The upper ends b (and dimensions dim) run up to MaxRandInt, the counts n up to MaxRandN.
MaxRandInt == 4

MaxRandN == 4

IntsReturned(value) == [raised |-> None, value |-> value]

IntsRaised(exc) == [raised |-> exc, value |-> <<>>]

\* np.random.random_integers(low, high, size=size): every array of `size` integers, each
\* between low and high inclusive, can come back.
random_integers(low, high, size) == [1..size -> low..high]

\* np.sort of a one-dimensional integer array
RECURSIVE np_sort(_)
np_sort(s) ==
    IF s = <<>> THEN <<>>
    ELSE LET i == CHOOSE i \in 1..Len(s) : \A j \in 1..Len(s) : s[i] <= s[j]
         IN <<s[i]>> \o np_sort([k \in 1..(Len(s) - 1) |-> IF k < i THEN s[k] ELSE s[k + 1]])

\* np.arange(n)
arange(n) == [k \in 1..n |-> k - 1]

\* range(start, stop) as an array
range(start, stop) == [k \in 1..(IF stop > start THEN stop - start ELSE 0) |-> start + k - 1]

\* rand_distinct_int with the array drawn inside it left unsorted and unspread.
rand_distinct_int_unspread(a, b, n, draw) ==
    IF n < 0 THEN IntsRaised("ValueError")
    ELSE IF n > b - a + 1 THEN IntsRaised("ValueError")
    ELSE IntsReturned(np_sort(draw))

\* rand_distinct_int(a, b, n), where draw is what random_integers(a, b - n + 1, size=n) gave
rand_distinct_int(a, b, n, draw) ==
    IF n < 0 THEN IntsRaised("ValueError")
    ELSE IF n > b - a + 1 THEN IntsRaised("ValueError")
    ELSE IntsReturned([k \in 1..n |-> np_sort(draw)[k] + arange(n)[k]])

\* rand_partitions that always takes its first branch.
rand_partitions_range_only(a, b, n, draw) == IntsReturned(range(a, b + 1))

\* rand_partitions(a, b, n), where draw is the array drawn inside rand_distinct_int
rand_partitions(a, b, n, draw) ==
    IF b - a <= n THEN IntsReturned(range(a, b + 1))
    ELSE LET cuts == rand_distinct_int(a + 1, b - 1, n - 1, draw)
         IN IF cuts.raised # None THEN cuts
            ELSE IntsReturned(<<a>> \o cuts.value \o <<b>>)

\* get_random_multiplicities(dim, num_sectors)
get_random_multiplicities(dim, num_sectors, draw) ==
    LET slices == rand_partitions(0, dim, num_sectors, draw)
    IN IF slices.raised # None THEN slices
       ELSE IF Len(slices.value) # num_sectors + 1 THEN IntsRaised("AssertionError")
       ELSE IntsReturned([k \in 1..num_sectors |-> slices.value[k + 1] - slices.value[k]])

\* The arrays random_integers can hand to a call rand_distinct_int(a, b, n); the empty array
\* stands for "not called" when the call raises first.
DistinctIntDraws(a, b, n) ==
    IF n < 0 \/ n > b - a + 1 THEN {<<>>} ELSE random_integers(a, b - n + 1, n)

\* The arrays random_integers can hand to a call rand_partitions(a, b, n).
PartitionDraws(a, b, n) ==
    IF b - a <= n THEN {<<>>} ELSE DistinctIntDraws(a + 1, b - 1, n - 1)

RandInit ==
    blk = [op |-> "init", a |-> 0, b |-> 0, n |-> 0, draw |-> <<>>, res |-> IntsRaised("none")]

\* rand_distinct_int(a, b, n)
RandDistinctInt ==
    /\ blk.op = "init"
    /\ \E a \in -1..1, b \in -1..MaxRandInt, n \in -1..MaxRandN :
       \E draw \in DistinctIntDraws(a, b, n) :
          blk' = [op |-> "rand_distinct_int", a |-> a, b |-> b, n |-> n, draw |-> draw,
                  res |-> rand_distinct_int(a, b, n, draw)]
    /\ FactoryIdle /\ SvdIdle

\* rand_partitions(a, b, n)
RandPartitions ==
    /\ blk.op = "init"
    /\ \E a \in -1..1, b \in -1..MaxRandInt, n \in -1..MaxRandN :
       \E draw \in PartitionDraws(a, b, n) :
          blk' = [op |-> "rand_partitions", a |-> a, b |-> b, n |-> n, draw |-> draw,
                  res |-> rand_partitions(a, b, n, draw)]
    /\ FactoryIdle /\ SvdIdle

\* get_random_multiplicities(dim, num_sectors); the record keeps dim as b and num_sectors
\* as n, the arguments of the rand_partitions call it makes.
GetRandomMultiplicities ==
    /\ blk.op = "init"
    /\ \E dim \in 0..MaxRandInt, num_sectors \in 0..MaxRandN :
       \E draw \in PartitionDraws(0, dim, num_sectors) :
          blk' = [op |-> "get_random_multiplicities", a |-> 0, b |-> dim, n |-> num_sectors,
                  draw |-> draw, res |-> get_random_multiplicities(dim, num_sectors, draw)]
    /\ FactoryIdle /\ SvdIdle

InitRandom == RandInit /\ FactoryInit /\ SvdInit

NextRandom == RandDistinctInt \/ RandPartitions \/ GetRandomMultiplicities

\* The random helpers of misc.py: one call, with any arguments and any draw.
SpecRandom == InitRandom /\ [][NextRandom]_vars

(***************************************************************************)
(* Properties of get_backend                                               *)
(***************************************************************************)

\* C1: two successful get_backend calls return the identical instance if and only if
\* they resolve to the same key (symmetry backend kind, block backend name, options),
\* and each key was constructed exactly once however often it was requested.
C1_SameInstanceIffSameKey ==
    /\ \A p, q \in returned :
          (p.id = q.id) <=>
              (<<p.kind, p.block_backend, p.options>> = <<q.kind, q.block_backend, q.options>>)
    /\ num_constructed =
          Cardinality({<<p.kind, p.block_backend, p.options>> : p \in returned})

\* C1 witness: a second key is in use and the last call reused a cached instance.
C1_Witness ==
    /\ call.outcome = "ok"
    /\ ~call.constructed
    /\ Cardinality(returned) = 2

\* C2: a request for the nonabelian symmetry backend (explicit, or auto-selected for a
\* non-abelian symmetry) with one of the seven block backend names raises
\* NotImplementedError and nothing else.
C2_NonabelianNotImplemented ==
    (call.block_backend \in BlockBackendNames /\ call.kind = "nonabelian")
        => call.outcome = "NotImplementedError"

\* C3: for the kinds no_symmetry and abelian, a request naming tensorflow, jax or tpu
\* raises NotImplementedError, returns no backend, constructs no instance and leaves
\* the cache as it was.
C3_ReservedNotImplemented ==
    [][ (/\ call' # call
         /\ call'.kind \in {"no_symmetry", "abelian"}
         /\ call'.block_backend \in {"tensorflow", "jax", "tpu"})
        => (/\ call'.outcome = "NotImplementedError"
            /\ call'.backend = NoBackend
            /\ num_constructed' = num_constructed
            /\ instantiated_backends' = instantiated_backends
            /\ returned' = returned) ]_vars

\* C3 witness: with one backend cached, an abelian request for jax was refused.
C3_Witness ==
    /\ call.kind = "abelian"
    /\ call.block_backend = "jax"
    /\ call.outcome = "NotImplementedError"
    /\ num_constructed = 1

\* What the symmetry alone selects: no_symmetry for the trivial symmetry, abelian for an
\* abelian symmetry that is not trivial, nonabelian otherwise.
KindOfSymmetry(symmetry) ==
    CASE symmetry = no_symmetry -> "no_symmetry"
      [] symmetry # no_symmetry /\ is_abelian(symmetry) -> "abelian"
      [] OTHER -> "nonabelian"

C5_RobustFallsBack ==
    (svd_call.algorithm \in {"robust", "robust_silent"} /\ ~svd_call.converges)
        => (svd_call.outcome = "ok" /\ svd_call.result = [driver |-> "gesvd", of |-> svd_call.a])

\* C6: under None or 'gesdd', a non-convergence error of the driver reaches the caller
\* as raised: one driver run, no retry, no result.
C6_NonRobustPropagates ==
    (svd_call.algorithm \in {None, "gesdd"} /\ ~svd_call.converges)
        => (/\ svd_call.outcome = "LinAlgError"
            /\ svd_call.raised_at = "scipy.linalg.svd"
            /\ svd_call.drivers = <<"gesdd">>
            /\ svd_call.result = NoResult)

\* C6 witness: a call without algorithm name on a matrix gesdd fails on.
C6_Witness ==
    /\ svd_call.algorithm = None
    /\ ~svd_call.converges
    /\ svd_call.outcome = "LinAlgError"

\* C7: an algorithm name outside None, gesdd, gesvd, robust, robust_silent raises a
\* ValueError naming the algorithm, and no driver runs.
C7_UnsupportedAlgorithm ==
    [][ (/\ svd_call' # svd_call
         /\ svd_call'.algorithm \notin {None, "gesdd", "gesvd", "robust", "robust_silent"})
        => (/\ svd_call'.outcome = "ValueError"
            /\ svd_call'.message = <<"SVD algorithm not supported: ", svd_call'.algorithm>>
            /\ svd_call'.drivers = <<>>
            /\ svd_drivers' = svd_drivers
            /\ svd_call'.result = NoResult) ]_vars

\* C7 witness: after a successful decomposition, an unknown name was refused.
C7_Witness ==
    /\ svd_call.algorithm = "gesvdx"
    /\ svd_call.outcome = "ValueError"
    /\ svd_drivers = <<"gesdd">>

(***************************************************************************)
(* Properties of the block operations                                      *)
(***************************************************************************)

Dims(a, idcs) == [i \in 1..Len(idcs) |-> a.shape[idcs[i] + 1]]

\* C8: for every block and every split of its axes into two ordered lists,
\* block_matrixify returns a matrix of shape (product of the idcs1 extents, product of
\* the idcs2 extents), and block_dematrixify of it restores the block.
C8_MatrixifyRoundTrip ==
    /\ blk.op \in {"matrixify", "dematrixify"}
          => (/\ blk.raised = None
              /\ blk.matrix.shape = <<Prod(Dims(blk.a, blk.idcs1)), Prod(Dims(blk.a, blk.idcs2))>>)
    /\ blk.op = "dematrixify" => blk.restored = blk.a

\* C8 restricted to the splits in which neither list is empty.
C8_NonEmptyGroupsRoundTrip ==
    (blk.op \in {"matrixify", "dematrixify"} /\ blk.idcs1 # <<>> /\ blk.idcs2 # <<>>)
        => (/\ blk.raised = None
            /\ blk.matrix.shape = <<Prod(Dims(blk.a, blk.idcs1)), Prod(Dims(blk.a, blk.idcs2))>>
            /\ blk.op = "dematrixify" => blk.restored = blk.a)

\* C8 restricted: a three-axis block, split as ([2], [0, 1]), was restored.
C8_NonEmptyGroupsWitness ==
    /\ blk.op = "dematrixify"
    /\ blk.a.shape = <<2, 1, 2>>
    /\ blk.idcs1 = <<2>>
    /\ blk.idcs2 = <<0, 1>>

\* The free axes of an operand, ascending.
FreeAxes(a, axes) == NotIn(0, Len(a.shape), axes)

\* The dense tensordot by its definition: the entry at the free indices (those of a, then
\* those of b) is the sum, over all values of the contracted indices, of the products of
\* the two entries.
TensordotReference(a, b, axes_a, axes_b) ==
    LET free_a == FreeAxes(a, axes_a)
        free_b == FreeAxes(b, axes_b)
        contracted == Dims(a, axes_a)
        IndexOf(axes, free, c, j, offset) ==
            [ax \in 1..(Len(axes) + Len(free)) |->
                IF ax - 1 \in Range(axes)
                THEN c[CHOOSE k \in 1..Len(axes) : axes[k] = ax - 1]
                ELSE j[offset + (CHOOSE k \in 1..Len(free) : free[k] = ax - 1)]]
    IN FromFn(Dims(a, free_a) \o Dims(b, free_b), LAMBDA j :
           SumTo(Prod(contracted), LAMBDA n :
               LET c == Unravel(n, contracted) IN
               Item(a, IndexOf(axes_a, free_a, c, j, 0))
               * Item(b, IndexOf(axes_b, free_b, c, j, Len(free_a)))))

\* C9: tdot of two tensors without symmetry over mutually contractible legs, named by
\* index or by label, is the dense tensordot over the same axes, whether no leg, some
\* legs, all legs of one operand or all legs of both are contracted.
C9_TdotIsTensordot ==
    blk.op = "tdot"
        => (/\ blk.result.raised = None
            /\ Unraised(blk.result)
               = TensordotReference(blk.t1.data, blk.t2.data, blk.idcs1, blk.idcs2))

\* C9 witness: both legs of the first operand were contracted by label, in exchanged
\* order, with two of the legs of the second.
C9_Witness ==
    /\ blk.op = "tdot"
    /\ blk.legs1 = <<ByLabel("b"), ByLabel("a")>>
    /\ blk.legs2 = <<ByLabel("z*"), ByLabel("y*")>>
    /\ blk.t1.data.shape = <<1, 2>>
    /\ blk.result.raised = None
    /\ \E k \in 1..Len(blk.result.data) : blk.result.data[k] # 0

\* The trace over one pair of axes after the other: np.trace over the first pair, then
\* the pairs left, their axes renumbered for the two axes gone.
RECURSIVE IteratedTrace(_, _, _)
IteratedTrace(a, idcs1, idcs2) ==
    IF idcs1 = <<>> THEN a
    ELSE LET x == idcs1[1]
             y == idcs2[1]
             Renumber(z) == z - (IF x < z THEN 1 ELSE 0) - (IF y < z THEN 1 ELSE 0)
         IN IteratedTrace(np_trace(a, x, y),
                          [k \in 1..(Len(idcs1) - 1) |-> Renumber(idcs1[k + 1])],
                          [k \in 1..(Len(idcs2) - 1) |-> Renumber(idcs2[k + 1])])

\* The iterated trace with its axes put in the order of the list remaining.
TraceReference(a, idcs1, idcs2, remaining) ==
    LET traced == IteratedTrace(a, idcs1, idcs2)
        ascending == NotIn(0, Len(a.shape), idcs1 \o idcs2)
    IN FromFn(Dims(a, remaining), LAMBDA j :
           Item(traced, [m \in 1..Len(ascending) |->
                            j[CHOOSE k \in 1..Len(remaining) : remaining[k] = ascending[m]]]))

\* C10: the full and the partial trace over the axis pairs (idcs1[k], idcs2[k]), one pair
\* or several, is the dense array traced one axis pair at a time; the axes of a partial
\* trace are the remaining axes in the order given.
C10_TraceIsIteratedTrace ==
    /\ blk.op = "trace_full"
          => (/\ blk.result.raised = None
              /\ Unraised(blk.result) = IteratedTrace(blk.a, blk.idcs1, blk.idcs2)
              /\ blk.result.shape = <<>>)
    /\ blk.op = "trace_partial"
          => (/\ blk.result.raised = None
              /\ Unraised(blk.result)
                 = TraceReference(blk.a, blk.idcs1, blk.idcs2, blk.remaining))

\* C10 witness: a partial trace over two pairs of axes of a five-axis block, the
\* pairs not adjacent and not ascending.
C10_Witness ==
    /\ blk.op = "trace_partial"
    /\ blk.a = GenericBlock(<<2, 2, 1, 2, 2>>)
    /\ blk.idcs1 = <<4, 0>>
    /\ blk.idcs2 = <<1, 3>>
    /\ blk.remaining = <<2>>
    /\ blk.result.raised = None

(***************************************************************************)
(* Properties of combine_legs and split_leg                                *)
(***************************************************************************)

\* The tensor t with its legs, their labels and the axes of its data in the order perm.
Permuted(t, perm) ==
    [data |-> np_transpose(t.data, perm),
     legs |-> [k \in 1..Len(perm) |-> t.legs[perm[k] + 1]],
     labels |-> [k \in 1..Len(perm) |-> t.labels[perm[k] + 1]]]

\* perm lists the axes 0 .. n - 1 with the axes of each group next to each other in the
\* order of the group and the other axes in ascending order.
IsGrouping(perm, n, groups) ==
    /\ \A g \in 1..Len(groups) : \E start \in 0..(n - Len(groups[g])) :
          \A k \in 1..Len(groups[g]) : perm[start + k] = groups[g][k]
    /\ \A i, j \in 1..n :
          (i < j /\ perm[i] \notin Range(Flatten(groups)) /\ perm[j] \notin Range(Flatten(groups)))
              => perm[i] < perm[j]

RestoredGrouped ==
    /\ blk.raised = None
    /\ \E perm \in Orderings(0..(Len(blk.before.legs) - 1)) :
          /\ IsGrouping(perm, Len(blk.before.legs), blk.groups)
          /\ blk.result = Permuted(blk.before, perm)

\* C11: split_leg of the leg combine_legs made of one group gives the tensor combined,
\* the legs of the group next to each other in the grouped order, with the legs, labels
\* and entries it had; split_legs after combining one or two groups of a tensor
\* restores them all.
C11_SplitInvertsCombine ==
    /\ (blk.op = "split_leg" /\ Len(blk.groups) = 1 /\ blk.leg \in blk.combined_at)
          => RestoredGrouped
    /\ (/\ blk.op = "split_legs"
        /\ \A i \in 1..Len(blk.before.legs) :
              is_ProductSpace(blk.before.legs[i]) => (i - 1) \in Range(Flatten(blk.groups)))
          => RestoredGrouped

\* C11 witness: the groups (c, a) and (b), combined to the legs 1 and 0, were split
\* again into b, c, a.
C11_Witness ==
    /\ blk.op = "split_legs"
    /\ blk.groups = <<<<2, 0>>, <<1>>>>
    /\ blk.new_axes = <<1, 0>>
    /\ blk.before.labels = <<<<"a">>, <<"b">>, <<"c">>>>
    /\ blk.t.labels = <<<<"(", "b", ")">>, <<"(", "c", ".", "a", ")">>>>
    /\ blk.result.labels = <<<<"b">>, <<"c">>, <<"a">>>>
    /\ blk.result.data.shape = <<2, 1, 2>>

(***************************************************************************)
(* Properties of get_leg_idx                                               *)
(***************************************************************************)

\* C12: on a tensor with n legs, an integer i with -n <= i < n resolves to the axis
\* i, or n + i when negative; any other integer raises ValueError; a string resolves to
\* the position of the leg carrying exactly that label; a string that is no label raises
\* ValueError; None raises TypeError, also when a leg is unlabelled.
C12_LegResolution ==
    blk.op = "get_leg_idx" =>
        LET n == Len(blk.t.labels)
            key == blk.which_leg
            res == blk.result
        IN /\ ("int" \in DOMAIN key /\ 0 <= key.int /\ key.int < n)
                 => res = Resolved(key.int)
           /\ ("int" \in DOMAIN key /\ -n <= key.int /\ key.int < 0)
                 => res = Resolved(n + key.int)
           /\ ("int" \in DOMAIN key /\ (key.int < -n \/ key.int >= n))
                 => res.raised = "ValueError"
           /\ ("str" \in DOMAIN key /\ key.str \in Range(blk.t.labels))
                 => (res.raised = None /\ blk.t.labels[res.idx + 1] = key.str)
           /\ ("str" \in DOMAIN key /\ key.str \notin Range(blk.t.labels))
                 => res.raised = "ValueError"
           /\ key = ByNone => res.raised = "TypeError"

\* C12 witness: None was looked up on a tensor whose middle leg is unlabelled.
C12_Witness ==
    /\ blk.op = "get_leg_idx"
    /\ blk.which_leg = ByNone
    /\ blk.t.labels = <<"foo", None, "b">>
    /\ blk.result.raised = "TypeError"

(***************************************************************************)
(* Properties of the operators of sparse.py                                *)
(***************************************************************************)

\* The operator the top of the stack was put around.
Wrapped == blk.chain[Len(blk.chain) - 1]

\* The matvec of a shifted operator on top of the stack was H.matvec(v) + s * v, entry
\* by entry.
ShiftedMatvecIsShift ==
    (blk.op = "matvec" /\ blk.stack.cls.name = "ShiftedTenpyLinearOperator")
        => LET hv == matvec(Wrapped, blk.vec)
               s == blk.stack.dict.shift.value
           IN /\ blk.mv.raised = None
              /\ blk.mv.vec.legs = blk.vec.legs
              /\ \A k \in 1..Len(blk.vec.data) :
                    blk.mv.vec.data[k] = CAdd(hv.vec.data[k], CMul(s, blk.vec.data[k]))

\* C13: for every operator H, every shift s and every vector v of the declared shape,
\* ShiftedTenpyLinearOperator(H, s) is an operator whose matvec(v) is H.matvec(v) + s * v.
C13_ShiftedMatvec ==
    /\ (blk.op = "wrap" /\ blk.construct.cls = RepoClass("ShiftedTenpyLinearOperator"))
          => blk.raised = None
    /\ ShiftedMatvecIsShift

\* A complex shift of a stack of two wrappers was applied to a vector.
ShiftedMatvecWitness ==
    /\ blk.op = "matvec"
    /\ Len(blk.chain) = 3
    /\ blk.stack.cls.name = "ShiftedTenpyLinearOperator"
    /\ blk.stack.dict.shift = Complex(0, 1)
    /\ blk.vec.data = <<<<1, 2>>, <<3, -1>>, <<2, 0>>>>

RECURSIVE SumOfVectors(_, _)
SumOfVectors(zero, vs) == IF vs = <<>> THEN zero ELSE tensor_add(vs[1], SumOfVectors(zero, Tail(vs)))

\* The part of v in the span of the orthonormal vectors os.
SpanPart(v, os) ==
    SumOfVectors(tensor_scale(CZero, v),
                 [k \in 1..Len(os) |-> tensor_scale(tensor_inner(os[k], v), os[k])])

\* The matvec of a projected operator on top of the stack: a vector in the span of the
\* excluded vectors was mapped to penalty times itself, and a vector orthogonal to them
\* to H.matvec(v) without its part in their span.
ProjectedMatvecIsProjection ==
    (blk.op = "matvec" /\ blk.stack.cls.name = "ProjectedTenpyLinearOperator")
        => LET os == blk.stack.dict.ortho_vecs
               p == blk.stack.dict.penalty.value
               v == blk.vec
               hv == matvec(Wrapped, v).vec
           IN /\ blk.mv.raised = None
              /\ blk.mv.vec.legs = v.legs
              /\ SpanPart(v, os).data = v.data => blk.mv.vec.data = tensor_scale(p, v).data
              /\ SpanPart(v, os).data = tensor_scale(CZero, v).data
                    => blk.mv.vec.data = tensor_sub(hv, SpanPart(hv, os)).data

\* C14: ProjectedTenpyLinearOperator(H, ortho_vecs, penalty) with orthonormal excluded
\* vectors is an operator that maps every vector in their span to penalty times itself,
\* and every vector v orthogonal to them to H.matvec(v) without its components along
\* them.
C14_ProjectedMatvec ==
    /\ (blk.op = "wrap" /\ blk.construct.cls = RepoClass("ProjectedTenpyLinearOperator"))
          => blk.raised = None
    /\ ProjectedMatvecIsProjection

\* A vector in the span of two excluded vectors, and one orthogonal to both, were
\* applied to a projected operator with a complex penalty.
ProjectedSpanWitness ==
    /\ blk.op = "matvec"
    /\ blk.stack.cls.name = "ProjectedTenpyLinearOperator"
    /\ Len(blk.stack.dict.ortho_vecs) = 2
    /\ blk.stack.dict.penalty = Complex(0, 2)
    /\ blk.vec.data = <<<<2, 0>>, <<0, 0>>, <<-1, 1>>>>
    /\ blk.mv.vec.data = <<<<0, 4>>, <<0, 0>>, <<-2, -2>>>>

ProjectedOrthogonalWitness ==
    /\ blk.op = "matvec"
    /\ blk.stack.cls.name = "ProjectedTenpyLinearOperator"
    /\ Len(blk.stack.dict.ortho_vecs) = 2
    /\ blk.vec.data = <<<<0, 0>>, <<2, -1>>, <<0, 0>>>>
    /\ blk.mv.vec.data[2] # CZero
    /\ blk.mv.vec.data[1] = CZero
    /\ matvec(Wrapped, blk.vec).vec.data[1] # CZero

\* The operators of the stack, counted from the innermost, that hold the attribute read
\* in their own __dict__.
Defining == {k \in 1..Len(blk.chain) : blk.attr \in DOMAIN blk.chain[k].dict}

\* C15: reading a data attribute on a stack of wrappers returns the value held by the
\* nearest operator of the stack that set it itself (the outermost of those defining
\* it); an attribute that no operator of the stack set raises AttributeError; and
\* vector_shape is always the one of the innermost operator.
C15_AttributeForwarding ==
    blk.op = "getattr"
        => /\ Defining # {}
                => LET k == CHOOSE k \in Defining : \A j \in Defining : j <= k IN
                   /\ blk.got.raised = None
                   /\ blk.got.value = blk.chain[k].dict[blk.attr]
           /\ Defining = {} => blk.got.raised = "AttributeError"
           /\ blk.attr = "vector_shape"
                => /\ blk.got.raised = None
                   /\ blk.got.value = blk.chain[1].dict.vector_shape

\* dtype was read on a wrapper that did not set it, around a wrapper with a complex
\* shift that did, around a real operator: the value is the one of the middle operator.
C15_Witness ==
    /\ blk.op = "getattr"
    /\ blk.attr = "dtype"
    /\ Len(blk.chain) = 3
    /\ Defining = {1, 2}
    /\ blk.chain[1].dict.dtype = "float64"
    /\ blk.got = [raised |-> None, value |-> "complex128"]

\* adjoint() was called on a stack of wrappers whose innermost operator defines no
\* adjoint: NotImplementedError was raised.
AdjointUndefinedPropagates ==
    (blk.op = "adjoint" /\ adjoint(blk.chain[1]).raised = "NotImplementedError")
        => blk.adj.raised = "NotImplementedError"

\* adjoint() was called on a wrapper around an operator whose adjoint exists (as do those
\* of the other summands of a sum): the result is the same kind of wrapper around that
\* adjoint, with the conjugated shift or penalty and the same excluded vectors.
AdjointFromWrappedAdjoint ==
    (blk.op = "adjoint" /\ is_wrapper(blk.stack.cls))
        => LET inner == adjoint(Wrapped)
               d == blk.stack.dict
               name == blk.stack.cls.name
               more == IF name = "SumTenpyLinearOperator" THEN adjoints(d.more_operators)
                       ELSE [raised |-> None, ops |-> <<>>]
           IN (inner.raised = None /\ more.raised = None)
                 => /\ blk.adj.raised = None
                    /\ blk.adj.op.cls.name = name
                    /\ blk.adj.op.dict.original_operator = inner.op
                    /\ name = "SumTenpyLinearOperator"
                          => blk.adj.op.dict.more_operators = more.ops
                    /\ name = "ShiftedTenpyLinearOperator"
                          => blk.adj.op.dict.shift = [d.shift EXCEPT !.value = CConj(d.shift.value)]
                    /\ name = "ProjectedTenpyLinearOperator"
                          => /\ blk.adj.op.dict.ortho_vecs = d.ortho_vecs
                             /\ blk.adj.op.dict.penalty
                                   = [d.penalty EXCEPT !.value = CConj(d.penalty.value)]

\* C16: adjoint() of a wrapper is the same kind of wrapper built from the adjoint of the
\* operator it wraps (sum of the adjoints, conjugated shift, same excluded vectors with
\* the conjugated penalty), and on a stack whose innermost operator defines no adjoint
\* it raises NotImplementedError.
C16_AdjointOfWrappers == AdjointFromWrappedAdjoint /\ AdjointUndefinedPropagates

\* adjoint() was called on a stack of two wrappers over an operator without adjoint.
AdjointUndefinedWitness ==
    /\ blk.op = "adjoint"
    /\ Len(blk.chain) = 3
    /\ "adjoint" \notin blk.chain[1].cls.subclass_defines
    /\ blk.chain[1].cls.name = "TenpyLinearOperator"
    /\ blk.adj.raised = "NotImplementedError"

\* The stack is a TensorLinearOperator, nothing around it.
OnTensorOperator ==
    /\ blk.op \in {"new", "matvec", "adjoint", "getattr"}
    /\ blk.raised = None
    /\ Len(blk.chain) = 1
    /\ blk.stack.cls.name = "TensorLinearOperator"

\* The position of the leg which_leg of the two-leg tensor handed to the constructor.
ContractedLeg ==
    LET which_leg == blk.construct.which_leg IN
    IF "str" \in DOMAIN which_leg
    THEN CHOOSE i \in 0..1 : blk.tensor.labels[i + 1] = which_leg.str
    ELSE which_leg.int % 2

\* The declared vector shape of a TensorLinearOperator is the leg that is not
\* contracted; a vector of that shape can be contracted with the other leg, and matvec
\* of it has that one leg.
TensorOperatorKeepsShape ==
    OnTensorOperator
        => LET shape == blk.stack.dict.vector_shape IN
           /\ shape.legs = <<blk.tensor.legs[(1 - ContractedLeg) + 1]>>
           /\ can_contract_with(blk.tensor.legs[ContractedLeg + 1], shape.legs[1])
           /\ blk.op = "matvec"
                 => /\ blk.vec.legs = shape.legs
                    /\ blk.mv.raised = None
                    /\ blk.mv.vec.legs = shape.legs

\* The adjoint of a TensorLinearOperator is an operator with the same vector leg.
TensorOperatorAdjointShape ==
    (OnTensorOperator /\ blk.op = "adjoint")
        => /\ blk.adj.raised = None
           /\ blk.adj.op.dict.vector_shape.legs = blk.stack.dict.vector_shape.legs

\* C17: TensorLinearOperator(tensor, which_leg) of a two-leg tensor with contractible
\* legs is an operator whose vector_shape is the single leg that is not contracted, a
\* vector of that shape is contractible with the contracted leg, matvec of it is a
\* one-leg tensor with the declared leg, and the adjoint declares the same leg.
C17_TensorOperatorShape ==
    /\ (/\ blk.op = "new"
        /\ blk.construct.cls = RepoClass("TensorLinearOperator")
        /\ blk.tensor \in {ComplexMatrix, RealSymmetricMatrix})
          => blk.raised = None
    /\ TensorOperatorKeepsShape
    /\ TensorOperatorAdjointShape

\* matvec was called on a TensorLinearOperator contracting the first leg, given by its
\* label: the vectors live on the second leg, which is a dual leg.
TensorOperatorShapeWitness ==
    /\ OnTensorOperator
    /\ blk.op = "matvec"
    /\ blk.construct.which_leg = ByLabel("a")
    /\ blk.stack.dict.vector_shape.legs = <<dual(VectorLeg)>>
    /\ blk.mv.vec.legs = <<dual(VectorLeg)>>

RECURSIVE Expressible(_)
Expressible(sym) ==
    \/ sym.cls \in {"NoSymmetry", "U1Symmetry", "ZNSymmetry"}
    \/ /\ sym.cls = "ProductSymmetry"
       /\ \A k \in 1..Len(sym.factors) : Expressible(sym.factors[k])

\* The moduli of a symmetry that is no product.
Modulus(sym) ==
    CASE sym.cls = "U1Symmetry" -> <<1>>
      [] sym.cls = "ZNSymmetry" -> <<sym.N>>
      [] OTHER -> <<>>

\* get_qmod gives [] for the trivial symmetry, [1] for U(1), [N] for Z_N and the
\* concatenation of the lists of the factors for a product, and raises
\* NotImplementedError for every other symmetry and every product containing one.
QmodIsModuli ==
    blk.op = "get_qmod"
        => IF ~Expressible(blk.sym) THEN blk.qmod = QmodRaised("NotImplementedError")
           ELSE /\ blk.qmod.raised = None
                /\ blk.sym.cls # "ProductSymmetry" => blk.qmod.qmod = Modulus(blk.sym)
                /\ blk.sym.cls = "ProductSymmetry"
                      => blk.qmod.qmod = Flatten([k \in 1..Len(blk.sym.factors) |->
                                                     get_qmod(blk.sym.factors[k]).qmod])

\* Converting a tensor whose symmetry is none of those, or whose backend is not a numpy
\* backend, raises NotImplementedError and returns no array.
ConvertRejectsUnsupported ==
    (blk.op = "convert" /\ (~Expressible(blk.a.symmetry) \/ blk.a.backend.block # "numpy"))
        => blk.res = ArrayRaised("NotImplementedError")

\* C18: get_qmod gives [] for the trivial symmetry, [1] for U(1), [N] for Z_N and the
\* concatenation of the factors' lists for a product symmetry; converting a tensor with
\* any other symmetry (or a product containing one), or a tensor whose backend is not a
\* numpy backend, raises NotImplementedError and returns no array.
C18_ConverterSupport == QmodIsModuli /\ ConvertRejectsUnsupported

\* get_qmod was called on the product of Z_3 and U(1).
QmodProductWitness ==
    /\ blk.op = "get_qmod"
    /\ blk.sym = ProductSymmetry(<<ZNSymmetry(3), U1Symmetry>>)
    /\ blk.qmod = QmodReturned(<<3, 1>>)

\* A tensor on a torch backend was handed to the converter.
ConvertTorchWitness ==
    /\ blk.op = "convert"
    /\ blk.a.backend = BackendClass("torch", "abelian")
    /\ blk.a.symmetry = U1Symmetry
    /\ blk.res.raised = "NotImplementedError"

(***************************************************************************)
(* The cache of get_backend                                                *)
(***************************************************************************)

\* One step keeps every entry of the cache, adds at most the key of a successful call
\* that was absent, and adds nothing when the call raised.
CacheStepKeepsEntries ==
    /\ \A k \in DOMAIN instantiated_backends :
          /\ k \in DOMAIN instantiated_backends'
          /\ instantiated_backends'[k] = instantiated_backends[k]
    /\ DOMAIN instantiated_backends' # DOMAIN instantiated_backends
          => /\ call'.outcome = "ok"
             /\ call'.key \notin DOMAIN instantiated_backends
             /\ DOMAIN instantiated_backends' = DOMAIN instantiated_backends \cup {call'.key}
    /\ call'.outcome # "ok" => instantiated_backends' = instantiated_backends

\* C19: the cache never evicts or replaces: a key once present stays mapped to the same
\* instance, a successful call adds at most one entry and only when its key was absent,
\* and a call that raises leaves the cache as it was.
C19_CacheNeverEvicts == [][CacheStepKeepsEntries]_vars

\* A second instance was just added to the cache and the first one is still there.
C19_Witness ==
    /\ call.constructed
    /\ Cardinality(DOMAIN instantiated_backends) = 2
    /\ call.key \in DOMAIN instantiated_backends
    /\ \E k \in DOMAIN instantiated_backends :
          k # call.key /\ instantiated_backends[k].id = 1

\* A TensorLinearOperator, of sparse.py or of a subclass, was just asked for.
TensorOperatorAskedFor == blk.op = "new" /\ blk.construct.cls.name = "TensorLinearOperator"

\* The tensor handed to the constructor has exactly two legs, contractible with each
\* other.
TwoContractibleLegs ==
    /\ Len(blk.tensor.legs) = 2
    /\ can_contract_with(blk.tensor.legs[1], blk.tensor.legs[2])

\* Construction succeeded only on two contractible legs, and on at least two legs that
\* are not two contractible legs it raised ValueError and left no operator.
TwoOrMoreLegsChecked ==
    (TensorOperatorAskedFor /\ blk.construct.cls # RepoClass("TensorLinearOperator"))
        => /\ blk.raised = None => TwoContractibleLegs
           /\ (Len(blk.tensor.legs) >= 2 /\ ~TwoContractibleLegs)
                 => (blk.raised = "ValueError" /\ blk.chain = <<>>)

\* C21: constructing a TensorLinearOperator succeeds only for a tensor with exactly two
\* legs that are contractible with each other; for any other number of legs, or two
\* legs that are not each other's dual, it raises ValueError and no attribute of the
\* operator is set.
C21_ConstructionChecksLegs ==
    TensorOperatorAskedFor
        => /\ blk.raised = None => TwoContractibleLegs
           /\ ~TwoContractibleLegs => (blk.raised = "ValueError" /\ blk.chain = <<>>)

\* A tensor with three legs and one with legs that are not contractible were refused
\* with ValueError.
ThreeLegsRefusedWitness ==
    /\ TensorOperatorAskedFor
    /\ blk.tensor = ThreeLegTensor
    /\ blk.raised = "ValueError"

UncontractibleRefusedWitness ==
    /\ TensorOperatorAskedFor
    /\ blk.tensor = UncontractibleMatrix
    /\ blk.raised = "ValueError"

\* A SumTenpyLinearOperator is on top of the stack.
OnSum == blk.raised = None /\ blk.stack.cls.name = "SumTenpyLinearOperator"

\* H0, H1, ..., Hk of the sum on top of the stack.
Summands == <<Wrapped>> \o blk.stack.dict.more_operators

\* C22: a SumTenpyLinearOperator over H0, ..., Hk is only built when every Hi declares
\* the vector shape of H0, and then matvec(v) is H0.matvec(v) + ... + Hk.matvec(v)
\* entry by entry, every summand applied to v itself.
C22_SumMatvec ==
    /\ (blk.op = "wrap" /\ OnSum)
          => \A i \in 1..Len(Summands) :
                getattr(Summands[i], "vector_shape").value.legs
                    = getattr(Summands[1], "vector_shape").value.legs
    /\ (blk.op = "wrap" /\ blk.construct.cls.name = "SumTenpyLinearOperator"
            /\ \E k \in 1..Len(blk.construct.more_operators) :
                  blk.construct.more_operators[k].dict.vector_shape.legs # <<StackLeg>>)
          => blk.raised # None
    /\ (blk.op = "matvec" /\ OnSum)
          => /\ blk.mv.raised = None
             /\ blk.mv.vec.legs = blk.vec.legs
             /\ LET each == [i \in 1..Len(Summands) |-> matvec(Summands[i], blk.vec).vec.data] IN
                \A e \in 1..Len(blk.vec.data) :
                   blk.mv.vec.data[e] = CSum([i \in 1..Len(Summands) |-> each[i][e]])

\* A sum of three operators, the first of them a shifted operator, was applied to a
\* vector.
C22_Witness ==
    /\ blk.op = "matvec"
    /\ OnSum
    /\ Len(Summands) = 3
    /\ Summands[1].cls.name = "ShiftedTenpyLinearOperator"
    /\ blk.vec.data = <<<<1, 2>>, <<3, -1>>, <<2, 0>>>>
    /\ blk.mv.vec.data # matvec(Wrapped, blk.vec).vec.data

\* A sum with an operator of another vector shape was refused.
SumShapeRefusedWitness ==
    /\ blk.op = "wrap"
    /\ blk.construct.cls = SubClass("SumTenpyLinearOperator", {"to_matrix"})
    /\ blk.construct.more_operators = <<OtherShapeOperator>>
    /\ blk.raised = "AssertionError"

\* What the wrapped operator returns in the matvec of the projected operator on top of
\* the stack: H applied to the vector without its components along the excluded vectors.
AfterWrapped == matvec(Wrapped, project_out(blk.vec, blk.stack.dict.ortho_vecs)).vec

\* The matvec of the projected operator with its second pass run over the excluded
\* vectors in forward order.
ForwardOrderMatvec ==
    LET os == blk.stack.dict.ortho_vecs
        res == project_out(AfterWrapped, os)
    IN IF blk.stack.dict.penalty.type = None THEN res
       ELSE add_penalty(res, blk.stack.dict.penalty.value,
                        projection_coefficients(blk.vec, os), os)

\* C23: with orthonormal excluded vectors, the matvec of a projected operator, whose
\* second pass runs over the excluded vectors in reverse order, returns what it would
\* return with that pass in forward order, for every vector and number of excluded
\* vectors.
C23_ReverseOrderIrrelevant ==
    (blk.op = "matvec" /\ blk.stack.cls.name = "ProjectedTenpyLinearOperator")
        => /\ blk.mv.raised = None
           /\ blk.mv.vec = ForwardOrderMatvec

\* The second pass had components to take off along both of two excluded vectors.
C23_Witness ==
    /\ blk.op = "matvec"
    /\ blk.stack.cls.name = "ProjectedTenpyLinearOperator"
    /\ Len(blk.stack.dict.ortho_vecs) >= 2
    /\ \A k \in 1..2 : tensor_inner(blk.stack.dict.ortho_vecs[k], AfterWrapped) # CZero
    /\ blk.mv.vec.data # AfterWrapped.data

(***************************************************************************)
(* Properties of the random helpers of misc.py                             *)
(***************************************************************************)

StrictlyIncreasing(s) == \A k \in 1..(Len(s) - 1) : s[k] < s[k + 1]

\* C24: for 1 <= num_sectors <= dim and every draw, get_random_multiplicities(dim,
\* num_sectors) returns exactly num_sectors strictly positive integers whose sum is dim;
\* and rand_distinct_int(a, b, n) returns n strictly increasing integers within [a, b]
\* whenever 0 <= n <= b - a + 1 and raises ValueError otherwise.
C24_RandomMultiplicities ==
    /\ (blk.op = "get_random_multiplicities" /\ 1 <= blk.n /\ blk.n <= blk.b)
          => /\ blk.res.raised = None
             /\ Len(blk.res.value) = blk.n
             /\ \A k \in 1..Len(blk.res.value) : blk.res.value[k] > 0
             /\ Sum(blk.res.value) = blk.b
    /\ (blk.op = "rand_distinct_int" /\ 0 <= blk.n /\ blk.n <= blk.b - blk.a + 1)
          => /\ blk.res.raised = None
             /\ Len(blk.res.value) = blk.n
             /\ StrictlyIncreasing(blk.res.value)
             /\ \A k \in 1..Len(blk.res.value) :
                   blk.a <= blk.res.value[k] /\ blk.res.value[k] <= blk.b
    /\ (blk.op = "rand_distinct_int" /\ ~(0 <= blk.n /\ blk.n <= blk.b - blk.a + 1))
          => blk.res.raised = "ValueError"

\* C24 witness: four states split into three sectors after an unsorted draw of two cuts.
C24_Witness ==
    /\ blk.op = "get_random_multiplicities"
    /\ blk.b = 4 /\ blk.n = 3
    /\ blk.draw = <<2, 1>>
    /\ blk.res = IntsReturned(<<1, 2, 1>>)

\* rand_distinct_int was asked for more integers than the range holds.
RandDistinctIntRefusedWitness ==
    /\ blk.op = "rand_distinct_int"
    /\ blk.n = blk.b - blk.a + 2
    /\ blk.res.raised = "ValueError"

\* rand_distinct_int drew the same integer twice and still returned distinct ones.
RandDistinctIntRepeatedDrawWitness ==
    /\ blk.op = "rand_distinct_int"
    /\ blk.draw = <<1, 1>>
    /\ blk.res = IntsReturned(<<1, 2>>)

\* What C25 says of a returned partition: n + 1 strictly increasing values from a to b.
IsPartition ==
    /\ blk.res.raised = None
    /\ Len(blk.res.value) = blk.n + 1
    /\ StrictlyIncreasing(blk.res.value)
    /\ blk.res.value[1] = blk.a
    /\ blk.res.value[Len(blk.res.value)] = blk.b

PartitionTooShortWitness ==
    /\ blk.op = "rand_partitions"
    /\ blk.a = 0 /\ blk.b = 1 /\ blk.n = 3
    /\ blk.res = IntsReturned(<<0, 1>>)

====
